---- MODULE Spec2Model ----
(***************************************************************************)
(* Strongbox: the clean / smudge filter pipeline, the SIV and age codecs,  *)
(* the keyring lookup and the binding resolver, the merge adapter, the     *)
(* bulk decryptor and key generation.                                      *)
(*                                                                         *)
(* File contents are sequences of tokens.  A token is either one byte of   *)
(* ordinary text, or one of the literal byte strings the program tests for *)
(* (the SIV marker prefix, the age armor header), or a slice of the        *)
(* base-64 text of a SIV ciphertext, or the body of an age ciphertext.     *)
(* Ciphertexts are symbolic: a SIV ciphertext names the key and the        *)
(* payload it authenticates, an age body names its recipients, its payload *)
(* and the randomness it was made with.                                    *)
(***************************************************************************)
EXTENDS Integers, Sequences, FiniteSets, TLC

VARIABLES tree, head, keyring, identity, cur, files, procs, env

vars == <<tree, head, keyring, identity, cur, files, procs, env>>

(***************************************************************************)
(* Bounds of the model.                                                    *)
(***************************************************************************)
MaxPlainLen == 1
MaxNonce == 2
MaxGenRuns == 3
MaxEntries == 3

\* iterations of a resolver loop that are followed
MaxSteps == 6

(***************************************************************************)
(* Tokens.  Every token is a record of the same shape.                     *)
(***************************************************************************)
Tok(t) ==
    [t |-> t, c |-> "", k |-> "", gz |-> FALSE, p |-> <<>>,
     lo |-> 0, hi |-> 0, rs |-> {}, n |-> 0]

Ch(c) == [Tok("ch") EXCEPT !.c = c]

NL == Ch("\n")

\* prefix = "# STRONGBOX ENCRYPTED RESOURCE ;"
prefix == <<Tok("prefix")>>

\* defaultPrefix = prefix + " See https://github.com/uw-labs/strongbox\n"
defaultPrefix == prefix \o <<Tok("comment"), NL>>

\* armor.Header = "-----BEGIN AGE ENCRYPTED FILE-----"
armorHeader == <<Tok("armorHeader")>>

armorFooter == <<Tok("armorFooter")>>

\* bytes.HasPrefix / strings.HasPrefix
HasPrefix(s, pre) ==
    /\ Len(s) >= Len(pre)
    /\ SubSeq(s, 1, Len(pre)) = pre

\* the plaintext of the unit tests: 48 bytes of text
plain == [i \in 1..48 |-> Ch("a")]

(***************************************************************************)
(* SIV codec (siv.go).                                                     *)
(***************************************************************************)
\* A byte string handed to or returned by siv: a gzip stream of p (gz), or
\* the bytes p themselves.  size is its length in bytes: a gzip stream of
\* short incompressible data is a 10-byte header, one stored block and an
\* 8-byte trailer.
compress(b) == [gz |-> TRUE, p |-> b]

PayloadSize(pl) == IF pl.gz THEN Len(pl.p) + 23 ELSE Len(pl.p)

\* siv.Encrypt(nil, key, b, nil): the payload under a 16-byte synthetic IV
SivEncrypt(key, pl) == [valid |-> TRUE, k |-> key, gz |-> pl.gz, p |-> pl.p]

SivSize(ct) == 16 + PayloadSize(ct)

\* base64.StdEncoding.EncodedLen
EncodedLen(n) == ((n + 2) \div 3) * 4

\* b64[lo:hi] of the base-64 text of ciphertext ct
B64Slice(ct, lo, hi) ==
    [Tok("b64") EXCEPT !.k = ct.k, !.gz = ct.gz, !.p = ct.p, !.lo = lo, !.hi = hi]

\* encode: the whole base-64 text, as one slice
encode(ct) == B64Slice(ct, 0, EncodedLen(SivSize(ct)))

RECURSIVE WrapLines(_, _, _)
\* the loop of encrypt: lines of 76 characters, the last one shorter
WrapLines(ct, lo, hi) ==
    IF lo >= hi THEN <<>>
    ELSE LET l == IF hi - lo < 76 THEN hi - lo ELSE 76
         IN  <<B64Slice(ct, lo, lo + l), NL>> \o WrapLines(ct, lo + l, hi)

encrypt(b, key) ==
    LET out == SivEncrypt(key, compress(b))
        b64 == encode(out)
    IN  defaultPrefix \o WrapLines(out, b64.lo, b64.hi)

\* bytes that are no SIV ciphertext of the model
Garbage == [valid |-> FALSE, k |-> "", gz |-> FALSE, p |-> <<>>]

IsContiguous(s) ==
    /\ s[1].lo = 0
    /\ \A i \in 1..(Len(s) - 1) :
          /\ s[i + 1].lo = s[i].hi
          /\ s[i + 1].k = s[1].k /\ s[i + 1].gz = s[1].gz /\ s[i + 1].p = s[1].p
    /\ s[Len(s)].hi = EncodedLen(SivSize(s[1]))

\* base64 text without line breaks to bytes: text that is no whole number of
\* quanta, or holds a byte outside the alphabet, is an error
DecodeText(body) ==
    IF body = <<>> THEN [err |-> "", val |-> Garbage]
    ELSE IF \A i \in 1..Len(body) : body[i].t = "b64"
    THEN IF IsContiguous(body)
         THEN [err |-> "",
               val |-> [valid |-> TRUE, k |-> body[1].k, gz |-> body[1].gz, p |-> body[1].p]]
         ELSE [err |-> "base64", val |-> Garbage]
    ELSE IF \A i \in 1..Len(body) : body[i].t = "ch"
    THEN IF Len(body) % 4 = 0
         THEN [err |-> "", val |-> Garbage]
         ELSE [err |-> "base64", val |-> Garbage]
    ELSE [err |-> "base64", val |-> Garbage]

\* a decoder that does not skip line breaks
decodeKeepingNewlines(encoded) == DecodeText(encoded)

\* decode: base64.StdEncoding.Decode skips '\r' and '\n'
decode(encoded) == DecodeText(SelectSeq(encoded, LAMBDA x : x # NL))

\* decompress: every gzip error ends the process (log.Fatal)
decompress(pl) ==
    IF pl.gz THEN [fatal |-> FALSE, val |-> pl.p]
    ELSE [fatal |-> TRUE, val |-> <<>>]

FirstNL(enc) ==
    IF \E i \in 1..Len(enc) : enc[i] = NL
    THEN CHOOSE i \in 1..Len(enc) : enc[i] = NL /\ \A j \in 1..(i - 1) : enc[j] # NL
    ELSE 0

\* a decrypt that takes whatever follows the first line for the plaintext
decryptUnchecked(enc, priv) ==
    LET i == FirstNL(enc)
    IN  IF i = 0 THEN [fatal |-> FALSE, err |-> "split", val |-> <<>>]
        ELSE [fatal |-> FALSE, err |-> "", val |-> SubSeq(enc, i + 1, Len(enc))]

decrypt(enc, priv) ==
    LET i == FirstNL(enc)
    IN  IF i = 0 THEN [fatal |-> FALSE, err |-> "split", val |-> <<>>]
        ELSE LET d == decode(SubSeq(enc, i + 1, Len(enc)))
             IN  IF d.err # "" THEN [fatal |-> FALSE, err |-> d.err, val |-> <<>>]
                 ELSE IF ~(d.val.valid /\ d.val.k = priv)
                 THEN [fatal |-> FALSE, err |-> "auth", val |-> <<>>]
                 ELSE LET z == decompress(d.val)
                      IN  IF z.fatal THEN [fatal |-> TRUE, err |-> "gzip", val |-> <<>>]
                          ELSE [fatal |-> FALSE, err |-> "", val |-> z.val]

(***************************************************************************)
(* The environment: the working tree's marker files, the commit at HEAD,   *)
(* the keyring file and the identity file.                                 *)
(***************************************************************************)
Keys == {"K1", "K2"}

\* keyID := sha256.Sum256(key): 32 bytes that name the key
Sha256(key) == [len |-> 32, sha |-> key]

\* a key-id file: base-64 text of len bytes, or text that is no base-64
KeyIdText(b64, len, sha) == [b64 |-> b64, len |-> len, sha |-> sha]

NoKeyId == [present |-> FALSE, data |-> KeyIdText(FALSE, 0, "")]

KeyIdFile(d) == [present |-> TRUE, data |-> d]

NoRecipient == [present |-> FALSE, data |-> <<>>]

\* a recipient file: one recipient per line; "bad" is a line that does not parse
RecipientFile(lines) == [present |-> TRUE, data |-> lines]

Dirs == {<<>>, <<"s">>}

Files == {<<"secret">>, <<"s", "secret">>}

\* filepath.Dir of a relative path; the empty sequence is "."
Dir(path) == IF Len(path) <= 1 THEN <<>> ELSE SubSeq(path, 1, Len(path) - 1)

\* fi, err := os.Stat(path); err == nil && fi.IsDir()
IsDir(path) == path \in DOMAIN tree /\ tree[path].isDir

(***************************************************************************)
(* Keyring (strongbox.go, fileKeyRing).                                    *)
(***************************************************************************)
KeyEntry(keyID, k) == [keyID |-> keyID, key |-> k, len |-> 32]

\* kr.Load(): the error of reading or parsing the keyring file
krLoad == IF keyring.status = "ok" THEN "" ELSE "load"

\* a lookup that returns the key of the last entry with that key-id
krKeyLast(keyID) ==
    LET hits == {i \in 1..Len(keyring.entries) : keyring.entries[i].keyID = keyID}
    IN  IF hits = {} THEN [err |-> "keyNotFound", key |-> ""]
        ELSE LET i == CHOOSE i \in hits : \A j \in hits : i >= j
             IN  IF keyring.entries[i].len # 32 THEN [err |-> "keylen", key |-> ""]
                 ELSE [err |-> "", key |-> keyring.entries[i].key]

\* kr.Key(keyID): the key of the first entry with that key-id
krKey(keyID) ==
    LET hits == {i \in 1..Len(keyring.entries) : keyring.entries[i].keyID = keyID}
    IN  IF hits = {} THEN [err |-> "keyNotFound", key |-> ""]
        ELSE LET i == CHOOSE i \in hits : \A j \in hits : i <= j
             IN  IF keyring.entries[i].len # 32 THEN [err |-> "keylen", key |-> ""]
                 ELSE [err |-> "", key |-> keyring.entries[i].key]

readKeyID(data) ==
    IF ~data.b64 THEN [err |-> "keyid", keyID |-> Sha256("")]
    ELSE IF data.len # 32 THEN [err |-> "keyid", keyID |-> Sha256("")]
    ELSE [err |-> "", keyID |-> [len |-> data.len, sha |-> data.sha]]

\* Load and Key, the common tail of key and sivFileToKey
LoadAndLookup(keyID) ==
    IF krLoad # "" THEN [err |-> krLoad, key |-> ""]
    ELSE krKey(keyID)

sivFileToKey(data) ==
    LET id == readKeyID(data)
    IN  IF id.err # "" THEN [err |-> id.err, key |-> ""]
        ELSE LoadAndLookup(id.keyID)

\* a findKey that looks in the directory of the file only
findKeyInDirOnly(filename) ==
    LET path == Dir(filename)
    IN  IF IsDir(path) /\ tree[path].keyid.present
        THEN readKeyID(tree[path].keyid.data)
        ELSE [err |-> "nokeyid", keyID |-> Sha256("")]

\* a findKey that takes the key-id file nearest to the root
findKeyShallowest(path) ==
    LET S == {d \in {SubSeq(path, 1, i) : i \in 0..Len(path)} :
                 IsDir(d) /\ tree[d].keyid.present}
    IN  IF S = {} THEN [err |-> "nokeyid", keyID |-> Sha256("")]
        ELSE readKeyID(tree[CHOOSE d \in S : \A e \in S : Len(d) <= Len(e)].keyid.data)

RECURSIVE findKeyFrom(_)
\* the loop of findKey, at directory path
findKeyFrom(path) ==
    IF IsDir(path) /\ tree[path].keyid.present
    THEN readKeyID(tree[path].keyid.data)
    ELSE IF path = <<>> THEN [err |-> "nokeyid", keyID |-> Sha256("")]
    ELSE findKeyFrom(Dir(path))

findKey(filename) == findKeyFrom(Dir(filename))

\* key, the keyLoader of smudge
key(filename) ==
    LET id == findKey(filename)
    IN  IF id.err # "" THEN [err |-> id.err, key |-> ""]
        ELSE LoadAndLookup(id.keyID)

(***************************************************************************)
(* Binding resolver (findRecipients).                                      *)
(***************************************************************************)
\* age.ParseRecipients: every line must parse, and there must be one
ageFileToRecipient(data) ==
    IF data = <<>> \/ \E i \in 1..Len(data) : data[i] = "bad"
    THEN [err |-> "recipients", val |-> <<>>]
    ELSE [err |-> "", val |-> data]

Binding(recipients, k, err, kind, dir) ==
    [recipients |-> recipients, key |-> k, err |-> err, kind |-> kind, dir |-> dir]

RECURSIVE findRecipientsKeyIdFirst(_)
\* a resolver that looks for the key-id file before the recipient file
findRecipientsKeyIdFirst(path) ==
    IF IsDir(path) /\ tree[path].keyid.present
    THEN LET k == sivFileToKey(tree[path].keyid.data)
         IN  Binding(<<>>, k.key, k.err, "siv", path)
    ELSE IF IsDir(path) /\ tree[path].recipient.present
    THEN LET r == ageFileToRecipient(tree[path].recipient.data)
         IN  Binding(r.val, "", r.err, "age", path)
    ELSE IF path = <<>> THEN Binding(<<>>, "", "notfound", "none", path)
    ELSE findRecipientsKeyIdFirst(Dir(path))

RECURSIVE findRecipientsFrom(_)
\* the loop of findRecipients, at directory path
findRecipientsFrom(path) ==
    IF IsDir(path) /\ tree[path].recipient.present
    THEN LET r == ageFileToRecipient(tree[path].recipient.data)
         IN  Binding(r.val, "", r.err, "age", path)
    ELSE IF IsDir(path) /\ tree[path].keyid.present
    THEN LET k == sivFileToKey(tree[path].keyid.data)
         IN  Binding(<<>>, k.key, k.err, "siv", path)
    ELSE IF path = <<>> THEN Binding(<<>>, "", "notfound", "none", path)
    ELSE findRecipientsFrom(Dir(path))

findRecipients(filename) == findRecipientsFrom(Dir(filename))

(***************************************************************************)
(* age codec (age.go).                                                     *)
(***************************************************************************)
\* identity.Recipient()
Recipient(id) == IF id = "I1" THEN "R1" ELSE "R2"

Range(s) == {s[i] : i \in 1..Len(s)}

\* an armored age file encrypted to recipients rs with randomness n
Armored(rs, p, n) ==
    armorHeader \o <<NL, [Tok("age") EXCEPT !.rs = rs, !.p = p, !.n = n]>>
        \o armorFooter \o <<NL>>

IsArmored(in) ==
    /\ Len(in) = 5
    /\ in[3].t = "age"
    /\ in = Armored(in[3].rs, in[3].p, in[3].n)

\* an ageDecrypt that writes nothing when the identity file cannot be used
ageDecryptStrict(in) ==
    IF identity.status = "missing" THEN [out |-> <<>>, ok |-> FALSE, err |-> "open"]
    ELSE IF identity.status # "ok" THEN [out |-> <<>>, ok |-> FALSE, err |-> "parse"]
    ELSE IF ~IsArmored(in) THEN [out |-> in, ok |-> FALSE, err |-> "malformed"]
    ELSE IF ~\E id \in identity.ids : Recipient(id) \in in[3].rs
    THEN [out |-> in, ok |-> FALSE, err |-> "nomatch"]
    ELSE [out |-> in[3].p, ok |-> TRUE, err |-> ""]

\* ageDecrypt: what it writes, whether that is the decrypted plaintext, and
\* the error it met: os.Open of the identity file, age.ParseIdentities, or
\* age.Decrypt on text that is no armored age file or has no stanza for a
\* local identity
ageDecrypt(in) ==
    IF identity.status = "missing" THEN [out |-> in, ok |-> FALSE, err |-> "open"]
    ELSE IF identity.status # "ok" THEN [out |-> in, ok |-> FALSE, err |-> "parse"]
    ELSE IF ~IsArmored(in) THEN [out |-> in, ok |-> FALSE, err |-> "malformed"]
    ELSE IF ~\E id \in identity.ids : Recipient(id) \in in[3].rs
    THEN [out |-> in, ok |-> FALSE, err |-> "nomatch"]
    ELSE [out |-> in[3].p, ok |-> TRUE, err |-> ""]

\* git cat-file -p HEAD:f; fatal when HEAD has no such path
ageFileAtHEAD(f) ==
    IF head.files[f].present THEN [fatal |-> FALSE, val |-> head.files[f].data]
    ELSE [fatal |-> TRUE, val |-> <<>>]

agePlaintextEqual(in, f) ==
    IF ~head.files[f].present THEN FALSE
    ELSE LET fileAtHEAD == ageFileAtHEAD(f).val
         IN  IF ~HasPrefix(fileAtHEAD, armorHeader) THEN FALSE
             ELSE ageDecrypt(fileAtHEAD).out = in

RECURSIVE ageRecipientChangedFrom(_)
\* the loop of ageRecipientChanged, at directory path; git cat-file -p of the
\* recipient file is fatal when HEAD does not have it
ageRecipientChangedFrom(path) ==
    IF IsDir(path) /\ tree[path].recipient.present
    THEN IF ~head.recipients[path].present
         THEN [fatal |-> TRUE, val |-> FALSE]
         ELSE [fatal |-> FALSE,
               val |-> head.recipients[path].data # tree[path].recipient.data]
    ELSE IF path = <<>> THEN [fatal |-> FALSE, val |-> FALSE]
    ELSE ageRecipientChangedFrom(Dir(path))

\* a comparison with HEAD that reports a change whatever the two files hold
ageRecipientAlwaysChanged(filename) ==
    [ageRecipientChangedFrom(Dir(filename)) EXCEPT !.val = TRUE]

ageRecipientChanged(filename) == ageRecipientChangedFrom(Dir(filename))

(***************************************************************************)
(* The result of one run of a filter: what it wrote (out, in nw writes),   *)
(* its exit status, which lookup it made, which branch it took (how), the  *)
(* error it met, and the binding or key it used.                           *)
(***************************************************************************)
Result(out, nw, exit, lookup, how, err, b) ==
    [out |-> out, nw |-> nw, exit |-> exit, lookup |-> lookup, how |-> how,
     err |-> err, kind |-> b.kind, dir |-> b.dir, key |-> b.key,
     recipients |-> b.recipients]

NoBinding == Binding(<<>>, "", "", "none", <<>>)

\* ageEncrypt(w, r, in, f), with the randomness n of age.Encrypt
ageEncrypt(b, in, f, n) ==
    IF agePlaintextEqual(in, f)
    THEN LET changed == ageRecipientChanged(f)
         IN  IF changed.fatal
             THEN Result(<<>>, 0, 1, "binding", "fatal", "cat-file", b)
             ELSE IF ~changed.val
             THEN Result(ageFileAtHEAD(f).val, 1, 0, "binding", "age-reuse", "", b)
             ELSE Result(Armored(Range(b.recipients), in, n), 1, 0, "binding", "age-fresh", "", b)
    ELSE Result(Armored(Range(b.recipients), in, n), 1, 0, "binding", "age-fresh", "", b)

\* the key branch of clean, after the recipients branch wrote a
cleanKey(a, in, k) ==
    [a EXCEPT !.out = a.out \o encrypt(in, k), !.nw = a.nw + 1,
              !.how = IF a.nw = 0 THEN "siv" ELSE "both"]

\* the recipients branch of clean
cleanRecipients(b, in, filename, n) ==
    IF b.recipients # <<>> THEN ageEncrypt(b, in, filename, n)
    ELSE Result(<<>>, 0, 0, "binding", "nothing", "", b)

\* a clean that copies the plaintext when the binding cannot be resolved
cleanPlaintextTolerant(in, filename, n) ==
    LET b == findRecipients(filename)
        a == cleanRecipients(b, in, filename, n)
    IN  IF b.err # "" THEN Result(in, 1, 0, "binding", "pass", b.err, b)
        ELSE IF a.exit # 0 THEN a
        ELSE IF b.key # "" THEN cleanKey(a, in, b.key)
        ELSE a

\* a clean whose SIV header line carries a value that differs from run to run
cleanPlaintextStamped(in, filename, n) ==
    LET b == findRecipients(filename)
        a == cleanRecipients(b, in, filename, n)
        c == cleanKey(a, in, b.key)
    IN  IF b.err # "" THEN Result(<<>>, 0, 1, "binding", "fatal", b.err, b)
        ELSE IF a.exit # 0 THEN a
        ELSE IF b.key # ""
        THEN [c EXCEPT !.out = [c.out EXCEPT ![Len(a.out) + 2] = [Tok("comment") EXCEPT !.n = n]]]
        ELSE a

\* clean, for an input that is plaintext: the recipients branch, then the
\* key branch
cleanPlaintext(in, filename, n) ==
    LET b == findRecipients(filename)
        a == cleanRecipients(b, in, filename, n)
    IN  IF b.err # "" THEN Result(<<>>, 0, 1, "binding", "fatal", b.err, b)
        ELSE IF a.exit # 0 THEN a
        ELSE IF b.key # "" THEN cleanKey(a, in, b.key)
        ELSE a

\* a clean that encrypts whatever it is given
cleanWithoutPassthrough(in, filename, n) == cleanPlaintext(in, filename, n)

clean(in, filename, n) ==
    IF HasPrefix(in, prefix) \/ HasPrefix(in, armorHeader)
    THEN Result(in, 1, 0, "none", "pass", "", NoBinding)
    ELSE cleanPlaintext(in, filename, n)

KeyUsed(k) == Binding(<<>>, k, "", "siv", <<>>)

\* a smudge that ends the process when the key cannot be loaded
smudgeSivStrict(in, filename) ==
    LET k == key(filename)
    IN  IF k.err # "" THEN Result(<<>>, 0, 1, "key", "fatal", k.err, NoBinding)
        ELSE LET d == decrypt(in, k.key)
             IN  IF d.fatal THEN Result(<<>>, 0, 1, "key", "fatal", d.err, KeyUsed(k.key))
                 ELSE IF d.err # "" THEN Result(in, 1, 0, "key", "pass", d.err, KeyUsed(k.key))
                 ELSE Result(d.val, 1, 0, "key", "plain", "", KeyUsed(k.key))

\* smudge, for an input that begins with the SIV marker prefix
smudgeSiv(in, filename) ==
    LET k == key(filename)
    IN  IF k.err # "" THEN Result(in, 1, 0, "key", "pass", k.err, NoBinding)
        ELSE LET d == decrypt(in, k.key)
             IN  IF d.fatal THEN Result(<<>>, 0, 1, "key", "fatal", d.err, KeyUsed(k.key))
                 ELSE IF d.err # "" THEN Result(in, 1, 0, "key", "pass", d.err, KeyUsed(k.key))
                 ELSE Result(d.val, 1, 0, "key", "plain", "", KeyUsed(k.key))

\* a smudge that loads the key for every input that is no age blob
smudgeLoadingKeyFirst(in, filename) ==
    IF HasPrefix(in, armorHeader)
    THEN LET d == ageDecrypt(in)
         IN  Result(d.out, 1, 0, "identity", IF d.ok THEN "plain" ELSE "pass", d.err, NoBinding)
    ELSE IF HasPrefix(in, prefix) THEN smudgeSiv(in, filename)
    ELSE LET k == key(filename)
         IN  Result(in, 1, 0, "key", "pass", k.err, NoBinding)

smudge(in, filename) ==
    IF HasPrefix(in, armorHeader)
    THEN LET d == ageDecrypt(in)
         IN  Result(d.out, 1, 0, "identity", IF d.ok THEN "plain" ELSE "pass", d.err, NoBinding)
    ELSE IF HasPrefix(in, prefix) THEN smudgeSiv(in, filename)
    ELSE Result(in, 1, 0, "none", "pass", "", NoBinding)

\* decryptCLI, with the key of -key: a failure of decrypt ends the process
decryptCLI(in, k) ==
    LET d == decrypt(in, k)
    IN  IF d.fatal \/ d.err # "" THEN Result(<<>>, 0, 1, "none", "fatal", d.err, KeyUsed(k))
        ELSE Result(d.val, 1, 0, "none", "plain", "", KeyUsed(k))

(***************************************************************************)
(* Inputs of the filters.                                                  *)
(***************************************************************************)
Text(n) == [i \in 1..n |-> Ch("a")]

Plains == {Text(n) : n \in 0..MaxPlainLen} \cup {plain}

\* SIV blobs: well-formed ones, and one for each way decrypt can fail
SivBlobs ==
    { encrypt(Text(1), "K1"),
      encrypt(Text(1), "K2"),
      prefix,
      defaultPrefix \o Text(1),
      defaultPrefix \o Text(4),
      LET ct == SivEncrypt("K1", [gz |-> FALSE, p |-> Text(1)])
      IN  defaultPrefix \o WrapLines(ct, 0, EncodedLen(SivSize(ct))) }

AgeBlobs ==
    { Armored({"R1"}, Text(1), 1), Armored({"R2"}, Text(1), 1), armorHeader,
      armorHeader \o <<NL>> \o Text(4) }

Inputs == Plains \cup SivBlobs \cup AgeBlobs

(***************************************************************************)
(* Initial states: a working tree bound by key-id files, or one bound by   *)
(* recipient files with a commit at HEAD.                                  *)
(***************************************************************************)
KeyIdTexts == {KeyIdText(TRUE, 32, "K1"), KeyIdText(TRUE, 32, "K2"), KeyIdText(TRUE, 16, "")}

TreeEntry(isDir, r, k) == [isDir |-> isDir, recipient |-> r, keyid |-> k]

NoHeadFile == [present |-> FALSE, data |-> <<>>]

HeadFile(d) == [present |-> TRUE, data |-> d]

KeyringOf(ks) == [status |-> "ok", entries |-> [i \in 1..Len(ks) |-> KeyEntry(Sha256(ks[i]), ks[i])]]

NoKeyring == [status |-> "missing", entries |-> <<>>]

IdentityFile(ids) == [status |-> "ok", ids |-> ids]

NoIdentityFile == [status |-> "missing", ids |-> {}]

\* an identity file that age.ParseIdentities rejects
BadIdentityFile == [status |-> "unparsable", ids |-> {}]

NoRun ==
    [op |-> "none", f |-> <<>>, in |-> <<>>, after |-> "none", src |-> <<>>,
     prev |-> <<>>, prevhow |-> "", prevkey |-> ""]
        @@ Result(<<>>, 0, 0, "none", "", "", NoBinding)

InitSiv ==
    /\ tree \in
         { t \in [Dirs -> {TreeEntry(TRUE, r, k) :
                             r \in {NoRecipient, RecipientFile(<<"R1">>)},
                             k \in {NoKeyId} \cup {KeyIdFile(d) : d \in KeyIdTexts}}
                          \cup {TreeEntry(FALSE, NoRecipient, NoKeyId)}] :
             t[<<>>].isDir }
    /\ keyring \in {NoKeyring, KeyringOf(<<"K1">>)}
    /\ identity = IdentityFile({"I1"})
    /\ head = [files |-> [f \in Files |-> NoHeadFile],
               recipients |-> [d \in Dirs |-> NoRecipient]]

InitAge ==
    /\ \E r0 \in {NoRecipient, RecipientFile(<<"R1">>)},
          r1 \in {NoRecipient, RecipientFile(<<"R1">>), RecipientFile(<<"R2">>)} :
          tree = [d \in Dirs |-> TreeEntry(TRUE, IF d = <<>> THEN r0 ELSE r1, NoKeyId)]
    /\ keyring = KeyringOf(<<"K1">>)
    /\ identity \in {IdentityFile({"I1"}), NoIdentityFile, BadIdentityFile}
    /\ \E h0 \in {NoRecipient, RecipientFile(<<"R1">>)},
          h1 \in {NoRecipient, RecipientFile(<<"R1">>), RecipientFile(<<"R2">>)},
          b \in {NoHeadFile, HeadFile(Armored({"R1"}, Text(1), 1)),
                 HeadFile(encrypt(Text(1), "K1"))} :
          head = [files |-> [f \in Files |-> IF f = <<"s", "secret">> THEN b ELSE NoHeadFile],
                  recipients |-> [d \in Dirs |-> IF d = <<>> THEN h0 ELSE h1]]

\* no file besides the marker files, no gen-key process
NoFiles == <<>>

NoProcs == <<>>

\* an environment variable: unset, or set to a value that may be empty
Unset == [set |-> FALSE, val |-> ""]

SetTo(v) == [set |-> TRUE, val |-> v]

\* user.Current(): an error, or a user with a home directory that may be empty
CurrentUser(err, dir) == [err |-> err, HomeDir |-> dir]

Env(sb, home, u) == [STRONGBOX_HOME |-> sb, HOME |-> home, user |-> u]

\* the environment of the runs that were given their files by flags
NoEnv == Env(Unset, Unset, CurrentUser(TRUE, ""))

Init ==
    /\ cur = NoRun
    /\ files = NoFiles
    /\ procs = NoProcs
    /\ env = NoEnv
    /\ InitSiv \/ InitAge

(***************************************************************************)
(* Actions: one run of a filter.                                           *)
(***************************************************************************)
Run(op, f, in, r, after, src, prev, prevhow, prevkey) ==
    [op |-> op, f |-> f, in |-> in, after |-> after, src |-> src,
     prev |-> prev, prevhow |-> prevhow, prevkey |-> prevkey] @@ r

\* strongbox -clean f, on any input, as the first run of a behaviour
Clean ==
    /\ cur.op = "none"
    /\ \E in \in Inputs, f \in Files, n \in 1..MaxNonce :
          cur' = Run("clean", f, in, clean(in, f, n), "none", <<>>, <<>>, "", "")
    /\ UNCHANGED <<env, tree, head, keyring, identity, files, procs>>

\* strongbox -smudge f, on any input, as the first run of a behaviour
Smudge ==
    /\ cur.op = "none"
    /\ \E in \in Inputs, f \in Files :
          cur' = Run("smudge", f, in, smudge(in, f), "none", <<>>, <<>>, "", "")
    /\ UNCHANGED <<env, tree, head, keyring, identity, files, procs>>

\* clean on the output of the clean before
CleanAgain ==
    /\ cur.op = "clean" /\ cur.exit = 0
    /\ \E n \in 1..MaxNonce :
          cur' = Run("clean", cur.f, cur.out, clean(cur.out, cur.f, n),
                     "clean", cur.in, cur.out, cur.how, cur.key)
    /\ UNCHANGED <<env, tree, head, keyring, identity, files, procs>>

\* clean once more on the input of the clean before, for any file
CleanSame ==
    /\ cur.op = "clean" /\ cur.exit = 0
    /\ \E f \in Files, n \in 1..MaxNonce :
          cur' = Run("clean", f, cur.in, clean(cur.in, f, n),
                     "clean", cur.in, cur.out, cur.how, cur.key)
    /\ UNCHANGED <<env, tree, head, keyring, identity, files, procs>>

\* smudge on the output of the clean before
SmudgeStaged ==
    /\ cur.op = "clean" /\ cur.exit = 0
    /\ cur' = Run("smudge", cur.f, cur.out, smudge(cur.out, cur.f),
                  "clean", cur.in, cur.out, cur.how, cur.key)
    /\ UNCHANGED <<env, tree, head, keyring, identity, files, procs>>

\* strongbox -decrypt -key k, on any input
DecryptCLI ==
    /\ cur.op = "none"
    /\ \E in \in Inputs, k \in Keys :
          cur' = Run("decrypt", <<>>, in, decryptCLI(in, k), "none", <<>>, <<>>, "", "")
    /\ UNCHANGED <<env, tree, head, keyring, identity, files, procs>>

\* ageDecrypt(w, in), on any input
AgeDecrypt ==
    /\ cur.op = "none"
    /\ \E in \in Inputs :
          LET d == ageDecrypt(in)
          IN  cur' = Run("ageDecrypt", <<>>, in,
                         Result(d.out, 1, 0, "identity", IF d.ok THEN "plain" ELSE "pass",
                                d.err, NoBinding),
                         "none", <<>>, <<>>, "", "")
    /\ UNCHANGED <<env, tree, head, keyring, identity, files, procs>>

Next ==
    \/ Clean \/ Smudge \/ CleanAgain \/ CleanSame \/ SmudgeStaged
    \/ DecryptCLI \/ AgeDecrypt

Spec == Init /\ [][Next]_vars

(***************************************************************************)
(* The merge adapter (mergeFile).  files maps the paths git passes, and    *)
(* the temporaries the adapter makes, to what the disk holds.              *)
(***************************************************************************)
File(d, m) == [present |-> TRUE, data |-> d, mode |-> m]

NoFile == [present |-> FALSE, data |-> <<>>, mode |-> ""]

\* mergeFileFlags[0], [1], [2], [4]: %O, %A, %B, %P
base == "O"

current == "A"

other == "B"

output == "P"

\* the names os.CreateTemp("", "merge-file-*.tmp") gives, in call order
TempNames == <<"merge-file-1.tmp", "merge-file-2.tmp", "merge-file-3.tmp">>

MergePaths == {base, current, other, output} \cup Range(TempNames)

\* the system call or child process that fails in a run, and for which input
Fault(what, at) == [what |-> what, at |-> at]

Faults ==
    {Fault("none", 0), Fault("merge-file", 0), Fault("WriteFile", 0)}
        \cup {Fault(w, i) : w \in {"CreateTemp", "WriteString"}, i \in 1..3}

\* createTempFile: both failures end the process; the second one after the
\* file was created
createTempFile(fs, content, i, fault) ==
    IF fault = Fault("CreateTemp", i)
    THEN [fatal |-> TRUE, err |-> "CreateTemp", fs |-> fs, name |-> ""]
    ELSE IF fault = Fault("WriteString", i)
    THEN [fatal |-> TRUE, err |-> "WriteString",
          fs |-> [fs EXCEPT ![TempNames[i]] = File(<<>>, "0600")], name |-> ""]
    ELSE [fatal |-> FALSE, err |-> "",
          fs |-> [fs EXCEPT ![TempNames[i]] = File(content, "0600")],
          name |-> TempNames[i]]

\* smudgeToFile, as the i-th call of mergeFile: the caller ends the process
\* on its error, smudge and createTempFile end it themselves
smudgeToFile(fs, filename, i, fault) ==
    IF ~fs[filename].present
    THEN [fatal |-> TRUE, err |-> "open", fs |-> fs, name |-> ""]
    ELSE LET r == smudge(fs[filename].data, <<filename>>)
         IN  IF r.exit # 0
             THEN [fatal |-> TRUE, err |-> r.err, fs |-> fs, name |-> ""]
             ELSE createTempFile(fs, r.out, i, fault)

Marker(m) == Tok(m)

ConflictText(ours, theirs) ==
    <<Marker("<<<<<<<")>> \o ours \o <<Marker("=======")>> \o theirs
        \o <<Marker(">>>>>>>")>>

\* git merge-file --stdout cur base oth: the merged text, and the number of
\* conflicts as the exit status
gitMergeFile(cur_, base_, oth_) ==
    IF cur_ = oth_ THEN [status |-> 0, out |-> cur_]
    ELSE IF base_ = cur_ THEN [status |-> 0, out |-> oth_]
    ELSE IF base_ = oth_ THEN [status |-> 0, out |-> cur_]
    ELSE [status |-> 1, out |-> ConflictText(cur_, oth_)]

MergeDone(exit, fs, merged, status, err, written) ==
    [exit |-> exit, fs |-> fs, merged |-> merged, status |-> status, err |-> err,
     written |-> written]

\* the next smudgeToFile of mergeFile, unless the process has ended
smudgeNext(prev, filename, i, fault) ==
    IF prev.fatal THEN prev ELSE smudgeToFile(prev.fs, filename, i, fault)

\* mergeFile, given what its three smudgeToFile calls returned: log.Fatal
\* ends the process without running the deferred os.Remove calls; the result
\* is written to the path the variable current holds after the second
\* smudgeToFile
mergeFile(s1, s2, s3, fault) ==
    IF s3.fatal THEN MergeDone(1, s3.fs, <<>>, 0, s3.err, "")
    ELSE LET m == IF fault = Fault("merge-file", 0) THEN [status |-> 255, out |-> <<>>]
                  ELSE gitMergeFile(s3.fs[s2.name].data, s3.fs[s1.name].data,
                                    s3.fs[s3.name].data)
         IN  IF m.status # 0 THEN MergeDone(1, s3.fs, m.out, m.status, "merge-file", "")
             ELSE IF fault = Fault("WriteFile", 0)
             THEN MergeDone(1, s3.fs, m.out, 0, "WriteFile", "")
             \* os.WriteFile(current, merged, 0644) writes the temporary s2.name,
             \* which the deferred os.Remove calls then delete with the two others
             ELSE MergeDone(0,
                            [n \in DOMAIN s3.fs |->
                                IF n \in {s1.name, s2.name, s3.name} THEN NoFile
                                ELSE s3.fs[n]],
                            m.out, 0, "", s2.name)

\* what git hands to the merge driver: blobs, or a path that cannot be opened
MergeTexts == {Text(1), Text(2), Text(3)}

MergeBlobs ==
    {encrypt(t, "K1") : t \in MergeTexts}
        \cup { Text(1), encrypt(Text(1), "K2"),
               LET ct == SivEncrypt("K1", [gz |-> FALSE, p |-> Text(1)])
               IN  defaultPrefix \o WrapLines(ct, 0, EncodedLen(SivSize(ct))) }

InitMerge ==
    /\ cur = NoRun
    /\ procs = NoProcs
    /\ env = NoEnv
    /\ \E k \in {NoKeyId, KeyIdFile(KeyIdText(TRUE, 32, "K1"))} :
          tree = [d \in Dirs |-> IF d = <<>> THEN TreeEntry(TRUE, NoRecipient, k)
                                 ELSE TreeEntry(FALSE, NoRecipient, NoKeyId)]
    /\ keyring = KeyringOf(<<"K1">>)
    /\ identity = IdentityFile({"I1"})
    /\ head = [files |-> [f \in Files |-> NoHeadFile],
               recipients |-> [d \in Dirs |-> NoRecipient]]
    /\ \E o, a, b \in {NoFile} \cup {File(d, "0600") : d \in MergeBlobs},
          p \in {NoFile, File(Text(1), "0644")} :
          files = [n \in MergePaths |->
                      IF n = base THEN o ELSE IF n = current THEN a
                      ELSE IF n = other THEN b ELSE IF n = output THEN p
                      ELSE NoFile]

\* strongbox -merge-file %O -merge-file %A ... : one run of the merge adapter
MergeFile ==
    /\ cur.op = "none"
    /\ \E fault \in Faults :
       \E s1 \in {smudgeToFile(files, base, 1, fault)} :
       \E s2 \in {smudgeNext(s1, current, 2, fault)} :
       \E s3 \in {smudgeNext(s2, other, 3, fault)} :
       \E r \in {mergeFile(s1, s2, s3, fault)} :
          /\ cur' = [op |-> "merge", exit |-> r.exit, merged |-> r.merged,
                     status |-> r.status, err |-> r.err, written |-> r.written,
                     fault |-> fault]
          /\ files' = r.fs
    /\ UNCHANGED <<env, tree, head, keyring, identity, procs>>

NextMerge == MergeFile

SpecMerge == InitMerge /\ [][NextMerge]_vars

(***************************************************************************)
(* The bulk decryptor (recursiveDecrypt).  files maps the regular files of *)
(* the working directory, those under .git included, to their contents.    *)
(***************************************************************************)
\* the regular files of the tree, in the lexical order of filepath.WalkDir
WalkOrder ==
    << <<".git", "foo">>, <<"s", ".git", "foo">>, <<"s", "secret">>, <<"secret">> >>

\* the directories given as target: ".", "s" and ".git"
Targets == {<<>>, <<"s">>, <<".git">>}

InTarget(path, target) ==
    Len(path) > Len(target) /\ SubSeq(path, 1, Len(target)) = target

\* the directories the walk enters on its way to path: the root of the walk,
\* under the name it was given, and the ones below it
EnteredDirs(path, target) ==
    {path[i] : i \in (IF Len(target) = 0 THEN 1 ELSE Len(target))..(Len(path) - 1)}

\* a walk that skips the directory .git of the root only
UnderTopLevelGit(path, target) == path[1] = ".git"

\* entry.Name() == ".git" returns fs.SkipDir for one of the directories
UnderGit(path, target) == ".git" \in EnteredDirs(path, target)

\* the files the callback is called for
Visited(target) ==
    SelectSeq(WalkOrder, LAMBDA q : InTarget(q, target) /\ ~UnderGit(q, target))

\* an I/O failure of the walk: what fails ("read" is the read of the first
\* chunk, "readall" that of the whole file) and for which file
NoFault == Fault("none", <<>>)

WalkState(fs, fault) ==
    [fs |-> fs, decErrors |-> <<>>, fatal |-> FALSE, opened |-> {}, lookups |-> {},
     written |-> {}, fault |-> fault, ioErr |-> NoFault]

\* os.OpenFile(path, os.O_RDWR, 0) needs the read and the write permission
CanOpenRW(mode) == mode \in {"0644", "0600"}

\* a callback that records an I/O error like a decryption error and goes on
ioErrorRecorded(st, what, path) ==
    [st EXCEPT !.decErrors = Append(@, [path |-> path, err |-> what])]

\* the callback returns err: filepath.WalkDir stops and returns it
ioError(st, what, path) == [st EXCEPT !.ioErr = Fault(what, path)]

\* a Truncate that leaves the content
fileTruncateKeeping(data) == data

\* file.Truncate(0)
fileTruncate(data) == <<>>

\* file.Write(out) at offset 0: the bytes behind the written ones stay
fileWrite(data, out) == out \o SubSeq(data, Len(out) + 1, Len(data))

DecError(path, err) == [path |-> path, err |-> err]

\* a choice of key that falls back on keyLoader when the given key does not
\* open the file
fileKeyWithFallback(path, givenKey) ==
    IF givenKey # "" /\ decrypt(files[path].data, givenKey).err = ""
    THEN [err |-> "", key |-> givenKey, lookup |-> FALSE]
    ELSE key(path) @@ [lookup |-> TRUE]

\* the key of one file: the given one, or the one keyLoader finds
fileKey(path, givenKey) ==
    IF givenKey # "" THEN [err |-> "", key |-> givenKey, lookup |-> FALSE]
    ELSE key(path) @@ [lookup |-> TRUE]

\* the callback of the walk for one regular file; decompress ends the
\* process inside decrypt
processFile(st, path, givenKey) ==
    LET data == st.fs[path].data
        st1 == [st EXCEPT !.opened = @ \cup {path}]
    IN  IF ~CanOpenRW(st.fs[path].mode) THEN ioError(st, "open", path)
        ELSE IF st.fault = Fault("read", path) THEN ioError(st1, "read", path)
        ELSE IF ~HasPrefix(data, prefix) THEN st1
        ELSE LET k == fileKey(path, givenKey)
                 st2 == IF k.lookup THEN [st1 EXCEPT !.lookups = @ \cup {path}] ELSE st1
             IN  IF k.err # ""
                 THEN [st2 EXCEPT !.decErrors = Append(@, DecError(path, k.err))]
                 ELSE IF st.fault = Fault("readall", path) THEN ioError(st2, "readall", path)
                 ELSE LET d == decrypt(data, k.key)
                      IN  IF d.fatal THEN [st2 EXCEPT !.fatal = TRUE]
                          ELSE IF d.err # ""
                          THEN [st2 EXCEPT !.decErrors = Append(@, DecError(path, d.err))]
                          ELSE IF st.fault = Fault("truncate", path)
                          THEN ioError(st2, "truncate", path)
                          ELSE IF st.fault = Fault("write", path)
                          THEN ioError([st2 EXCEPT !.fs[path].data = fileTruncate(data)],
                                       "write", path)
                          ELSE [st2 EXCEPT !.fs[path].data =
                                               fileWrite(fileTruncate(data), d.val),
                                           !.written = @ \cup {path}]

RECURSIVE walkFrom(_, _, _, _)
\* filepath.WalkDir from the i-th file on
walkFrom(st, order, i, givenKey) ==
    IF i > Len(order) \/ st.fatal \/ st.ioErr # NoFault THEN st
    ELSE CHOOSE r \in {walkFrom(n, order, i + 1, givenKey) :
                          n \in {processFile(st, order[i], givenKey)}} : TRUE

\* recursiveDecrypt and its caller: the aggregate error, and the exit status
recursiveDecrypt(fs, target, givenKey, fault) ==
    LET st == walkFrom(WalkState(fs, fault), Visited(target), 1, givenKey)
        err == IF st.ioErr # NoFault THEN st.ioErr.what
               ELSE IF Len(st.decErrors) > 0 THEN "unable to decrypt some files" ELSE ""
    IN  [fs |-> st.fs, decErrors |-> st.decErrors, opened |-> st.opened,
         lookups |-> st.lookups, written |-> st.written, ioErr |-> st.ioErr,
         fault |-> fault,
         returned |-> ~st.fatal,
         err |-> IF st.fatal THEN "" ELSE err,
         exit |-> IF st.fatal \/ err # "" THEN 1 ELSE 0]

WalkBlobs ==
    { encrypt(Text(1), "K1"), encrypt(Text(1), "K2"), Text(1),
      defaultPrefix \o Text(1),
      LET ct == SivEncrypt("K1", [gz |-> FALSE, p |-> Text(1)])
      IN  defaultPrefix \o WrapLines(ct, 0, EncodedLen(SivSize(ct))) }

InitWalk ==
    /\ cur = NoRun
    /\ procs = NoProcs
    /\ env = NoEnv
    /\ \E k0, k1 \in {NoKeyId, KeyIdFile(KeyIdText(TRUE, 32, "K1")),
                      KeyIdFile(KeyIdText(TRUE, 32, "K2"))} :
          tree = [d \in Dirs |-> TreeEntry(TRUE, NoRecipient, IF d = <<>> THEN k0 ELSE k1)]
    /\ keyring \in {KeyringOf(<<"K1">>), KeyringOf(<<"K1", "K2">>)}
    /\ identity = IdentityFile({"I1"})
    /\ head = [files |-> [f \in Files |-> NoHeadFile],
               recipients |-> [d \in Dirs |-> NoRecipient]]
    /\ \E a, b \in WalkBlobs, g0, g1 \in {encrypt(Text(1), "K1"), Text(1)} :
          files = [q \in Range(WalkOrder) |->
                      File(IF q = <<"secret">> THEN a
                           ELSE IF q = <<"s", "secret">> THEN b
                           ELSE IF q = <<".git", "foo">> THEN g0 ELSE g1, "0644")]

WalkRun(target, givenKey, r) ==
    [op |-> "walk", target |-> target, givenKey |-> givenKey, before |-> files,
     exit |-> r.exit, returned |-> r.returned, err |-> r.err, decErrors |-> r.decErrors,
     opened |-> r.opened, lookups |-> r.lookups, written |-> r.written, ioErr |-> r.ioErr,
     fault |-> r.fault]

\* strongbox -decrypt -recursive [-key k] target
RecursiveDecrypt ==
    /\ cur.op = "none"
    /\ \E target \in Targets, givenKey \in {""} \cup Keys :
          \E r \in {recursiveDecrypt(files, target, givenKey, NoFault)} :
              /\ cur' = WalkRun(target, givenKey, r)
              /\ files' = r.fs
    /\ UNCHANGED <<env, tree, head, keyring, identity, procs>>

NextWalk == RecursiveDecrypt

SpecWalk == InitWalk /\ [][NextWalk]_vars

\* the walk over files of every kind and mode, with the I/O failures
IoBlobs ==
    { encrypt(Text(1), "K1"), encrypt(Text(0), "K1"), encrypt(Text(1), "K2"),
      Text(1), <<>>, <<Tok("prefixHead")>>, Armored({"R1"}, Text(1), 1),
      defaultPrefix \o Text(1) }

IoFaults ==
    {NoFault} \cup {Fault(w, q) : w \in {"read", "readall", "truncate", "write"},
                                 q \in {<<"s", "secret">>, <<"secret">>}}

InitWalkIO ==
    /\ cur = NoRun
    /\ procs = NoProcs
    /\ env = NoEnv
    /\ tree = [d \in Dirs |-> TreeEntry(TRUE, NoRecipient,
                                         IF d = <<>> THEN KeyIdFile(KeyIdText(TRUE, 32, "K1"))
                                         ELSE NoKeyId)]
    /\ keyring = KeyringOf(<<"K1">>)
    /\ identity = IdentityFile({"I1"})
    /\ head = [files |-> [f \in Files |-> NoHeadFile],
               recipients |-> [d \in Dirs |-> NoRecipient]]
    /\ \E a, b \in IoBlobs, ma, mb \in {"0644", "0600", "0444"} :
          files = [q \in Range(WalkOrder) |->
                      IF q = <<"secret">> THEN File(a, ma)
                      ELSE IF q = <<"s", "secret">> THEN File(b, mb)
                      ELSE File(encrypt(Text(1), "K1"), "0644")]

RecursiveDecryptIO ==
    /\ cur.op = "none"
    /\ \E target \in {<<>>, <<"s">>}, givenKey \in {"", "K1"}, fault \in IoFaults :
          \E r \in {recursiveDecrypt(files, target, givenKey, fault)} :
              /\ cur' = WalkRun(target, givenKey, r)
              /\ files' = r.fs
    /\ UNCHANGED <<env, tree, head, keyring, identity, procs>>

NextWalkIO == RecursiveDecryptIO

SpecWalkIO == InitWalkIO /\ [][NextWalkIO]_vars

(***************************************************************************)
(* Key generation (genKey).  Each gen-key process loads the keyring file   *)
(* into its memory, appends an entry there and saves its memory as the     *)
(* file; the steps of two processes interleave.  cur keeps the history:    *)
(* the entries of the file at the start, the entries of the runs that      *)
(* exited zero in the order of their exits, whether a run began while      *)
(* another was between its Load and its Save, whether a run failed.        *)
(***************************************************************************)
GenProcs == {1, 2}

\* the keys rand.Read gives; the same one may come twice
GenKeys == {"G1", "G2"}

\* a keyring file that yaml.Unmarshal rejects
BadKeyring == [status |-> "unparsable", entries |-> <<>>]

GenProc(pc, mem) == [pc |-> pc, mem |-> mem]

\* main with -keyring, then genKey: kr.Load(); a missing file is an error
\* for the first and an empty keyring for the second
genLoad(flagKeyRing) ==
    IF keyring.status = "ok" THEN [fatal |-> FALSE, KeyEntries |-> keyring.entries]
    ELSE IF keyring.status = "missing" /\ ~flagKeyRing
    THEN [fatal |-> FALSE, KeyEntries |-> <<>>]
    ELSE [fatal |-> TRUE, KeyEntries |-> <<>>]

\* an AddKey that puts the new entry first
AddKeyInFront(KeyEntries, keyID, k) == <<KeyEntry(keyID, k)>> \o KeyEntries

\* kr.AddKey
AddKey(KeyEntries, keyID, k) == Append(KeyEntries, KeyEntry(keyID, k))

\* a Save that appends the last entry of the memory to what the file holds
SaveAppending(KeyEntries) ==
    [status |-> "ok",
     entries |-> keyring.entries \o <<KeyEntries[Len(KeyEntries)]>>]

\* kr.Save: the memory replaces the file
Save(KeyEntries) == [status |-> "ok", entries |-> KeyEntries]

\* the file after ioutil.WriteFile opened it with O_TRUNC and wrote nothing
TruncatedKeyring == [status |-> "ok", entries |-> <<>>]

Running(q) == procs[q].pc \in {"loaded", "added"}

InitGenKey ==
    /\ keyring \in {NoKeyring, BadKeyring, KeyringOf(<<"K1">>)}
    /\ tree = [d \in Dirs |-> TreeEntry(TRUE, NoRecipient, NoKeyId)]
    /\ identity = IdentityFile({"I1"})
    /\ head = [files |-> [f \in Files |-> NoHeadFile],
               recipients |-> [d \in Dirs |-> NoRecipient]]
    /\ files = NoFiles
    /\ procs = [q \in GenProcs |-> GenProc("idle", <<>>)]
    /\ env = NoEnv
    /\ cur = [op |-> "gen-key", initial |-> keyring.entries, saved |-> <<>>,
              overlapped |-> FALSE, failed |-> FALSE, runs |-> 0]

\* a gen-key process begins: Load
GenLoad(q) ==
    /\ ~Running(q)
    /\ cur.runs < MaxGenRuns
    /\ \E flagKeyRing \in BOOLEAN :
          LET l == genLoad(flagKeyRing)
          IN  /\ procs' = [procs EXCEPT ![q] =
                              IF l.fatal THEN GenProc("failed", <<>>)
                              ELSE GenProc("loaded", l.KeyEntries)]
              /\ cur' = [cur EXCEPT !.runs = @ + 1,
                                    !.failed = @ \/ l.fatal,
                                    !.overlapped = @ \/ \E o \in GenProcs \ {q} : Running(o)]
    /\ UNCHANGED <<env, tree, head, keyring, identity, files>>

\* rand.Read, sha256.Sum256 and AddKey; a failure of rand.Read ends the process
GenAddKey(q) ==
    /\ procs[q].pc = "loaded"
    /\ \/ /\ \E k \in GenKeys :
                procs' = [procs EXCEPT ![q] =
                             GenProc("added", AddKey(procs[q].mem, Sha256(k), k))]
          /\ UNCHANGED cur
       \/ /\ procs' = [procs EXCEPT ![q] = GenProc("failed", <<>>)]
          /\ cur' = [cur EXCEPT !.failed = TRUE]
    /\ UNCHANGED <<env, tree, head, keyring, identity, files>>

\* Save, then exit; a failed ioutil.WriteFile leaves the file as it was or
\* truncated, and ends the process
GenSave(q) ==
    /\ procs[q].pc = "added"
    /\ \/ /\ keyring' = Save(procs[q].mem)
          /\ procs' = [procs EXCEPT ![q] = GenProc("done", <<>>)]
          /\ cur' = [cur EXCEPT !.saved = Append(@, procs[q].mem[Len(procs[q].mem)])]
       \/ /\ keyring' \in {keyring, TruncatedKeyring}
          /\ procs' = [procs EXCEPT ![q] = GenProc("failed", <<>>)]
          /\ cur' = [cur EXCEPT !.failed = TRUE]
    /\ UNCHANGED <<env, tree, head, identity, files>>

NextGenKey == \E q \in GenProcs : GenLoad(q) \/ GenAddKey(q) \/ GenSave(q)

SpecGenKey == InitGenKey /\ [][NextGenKey]_vars

(***************************************************************************)
(* The keyring alone: AddKey and Key on any sequence of entries, entries   *)
(* with the same key-id and different keys included.                       *)
(***************************************************************************)
\* what a keyring file can hold: pairs that gen-key made, pairs written by
\* hand, and one whose key does not decode to 32 bytes
KrEntries ==
    {KeyEntry(Sha256(i), k) : i \in Keys, k \in Keys \cup {"K3"}}
        \cup {[KeyEntry(Sha256("K1"), "K1") EXCEPT !.len = 16]}

InitKeyring ==
    /\ cur = NoRun
    /\ procs = NoProcs
    /\ env = NoEnv
    /\ files = NoFiles
    /\ tree = [d \in Dirs |-> TreeEntry(TRUE, NoRecipient, NoKeyId)]
    /\ identity = IdentityFile({"I1"})
    /\ head = [files |-> [f \in Files |-> NoHeadFile],
               recipients |-> [d \in Dirs |-> NoRecipient]]
    /\ \E e \in KrEntries : keyring \in {KeyringOf(<<>>), [KeyringOf(<<>>) EXCEPT !.entries = <<e>>]}

\* kr.AddKey(desc, keyID, key), on a loaded keyring
KrAddKey ==
    /\ Len(keyring.entries) < MaxEntries
    /\ \E e \in KrEntries :
          keyring' = [keyring EXCEPT !.entries = AddKey(@, e.keyID, e.key)]
    /\ cur' = [op |-> "AddKey", keyID |-> Sha256(""), err |-> "", key |-> "",
               before |-> keyring.entries]
    /\ UNCHANGED <<env, tree, head, identity, files, procs>>

\* kr.Key(keyID), on a loaded keyring
KrKey ==
    /\ \E i \in Keys \cup {"K3"} :
          LET r == krKey(Sha256(i))
          IN  cur' = [op |-> "Key", keyID |-> Sha256(i), err |-> r.err, key |-> r.key,
                      before |-> keyring.entries]
    /\ UNCHANGED <<env, tree, head, keyring, identity, files, procs>>

NextKeyring == KrAddKey \/ KrKey

SpecKeyring == InitKeyring /\ [][NextKeyring]_vars

(***************************************************************************)
(* Home resolution: deriveHome over the process environment.               *)
(***************************************************************************)
\* os.Getenv: the value, empty when the variable is unset
Getenv(v) == IF v.set THEN v.val ELSE ""

HomeResult(fatal, home) == [fatal |-> fatal, home |-> home]

\* a deriveHome that tries HOME before STRONGBOX_HOME
deriveHomeTryingHOMEFirst(e) ==
    IF Getenv(e.HOME) # "" THEN HomeResult(FALSE, Getenv(e.HOME))
    ELSE IF Getenv(e.STRONGBOX_HOME) # "" THEN HomeResult(FALSE, Getenv(e.STRONGBOX_HOME))
    ELSE IF ~e.user.err /\ e.user.HomeDir # "" THEN HomeResult(FALSE, e.user.HomeDir)
    ELSE HomeResult(TRUE, "")

deriveHome(e) ==
    IF Getenv(e.STRONGBOX_HOME) # "" THEN HomeResult(FALSE, Getenv(e.STRONGBOX_HOME))
    ELSE IF Getenv(e.HOME) # "" THEN HomeResult(FALSE, Getenv(e.HOME))
    ELSE IF ~e.user.err /\ e.user.HomeDir # "" THEN HomeResult(FALSE, e.user.HomeDir)
    ELSE HomeResult(TRUE, "")

EnvValues == {Unset, SetTo(""), SetTo("/sb"), SetTo("/home/u"), SetTo("/tmp")}

CurrentUsers == {CurrentUser(TRUE, ""), CurrentUser(FALSE, ""),
                 CurrentUser(FALSE, "/home/u"), CurrentUser(FALSE, "/root")}

InitHome ==
    /\ cur = NoRun
    /\ procs = NoProcs
    /\ files = NoFiles
    /\ env \in {Env(sb, home, u) : sb \in EnvValues, home \in EnvValues, u \in CurrentUsers}
    /\ tree = [d \in Dirs |-> TreeEntry(TRUE, NoRecipient, NoKeyId)]
    /\ identity = NoIdentityFile
    /\ keyring = NoKeyring
    /\ head = [files |-> [f \in Files |-> NoHeadFile],
               recipients |-> [d \in Dirs |-> NoRecipient]]

\* main calls deriveHome before it looks at the flags
DeriveHome ==
    /\ cur.op = "none"
    /\ LET r == deriveHome(env)
       IN  cur' = [op |-> "deriveHome", fatal |-> r.fatal, home |-> r.home]
    /\ UNCHANGED <<env, tree, head, keyring, identity, files, procs>>

NextHome == DeriveHome

SpecHome == InitHome /\ [][NextHome]_vars

(***************************************************************************)
(* Checkout: the host writes the files of a commit to the working tree one *)
(* by one, and runs smudge on the blob of each protected file.             *)
(***************************************************************************)
CheckoutBlobs == {encrypt(Text(1), "K1"), encrypt(Text(0), "K1"), encrypt(Text(1), "K2")}

CheckoutRun(op, f, r, again) ==
    [op |-> op, f |-> f, in |-> head.files[f].data, out |-> r.out, nw |-> r.nw,
     exit |-> r.exit, err |-> r.err, keyids |-> [d \in Dirs |-> tree[d].keyid],
     again |-> again,
     early |-> IF op = "checkout" /\ r.exit = 0 /\ r.out = head.files[f].data
               THEN cur.early \cup {f} ELSE cur.early]

\* a fresh clone: the commit holds the key-id files and the blobs, the
\* working tree holds neither yet
InitCheckout ==
    /\ procs = NoProcs
    /\ env = NoEnv
    /\ identity = IdentityFile({"I1"})
    /\ keyring \in {KeyringOf(<<"K1">>), KeyringOf(<<"K2", "K1">>)}
    /\ tree = [d \in Dirs |-> TreeEntry(TRUE, NoRecipient, NoKeyId)]
    /\ \E ids \in [Dirs -> {NoKeyId, KeyIdFile(KeyIdText(TRUE, 32, "K1")),
                             KeyIdFile(KeyIdText(TRUE, 32, "K2"))}],
          blobs \in [Files -> CheckoutBlobs] :
          head = [files |-> [f \in Files |-> HeadFile(blobs[f])],
                  recipients |-> [d \in Dirs |-> NoRecipient],
                  keyids |-> ids]
    /\ files = [f \in Files |-> NoFile]
    /\ cur = [op |-> "none", f |-> <<>>, in |-> <<>>, out |-> <<>>, nw |-> 0, exit |-> 0,
              err |-> "", keyids |-> [d \in Dirs |-> NoKeyId], again |-> FALSE,
              early |-> {}]

\* the host writes the key-id file of directory d
CheckoutKeyId ==
    /\ \E d \in Dirs :
          /\ head.keyids[d].present
          /\ ~tree[d].keyid.present
          /\ tree' = [tree EXCEPT ![d].keyid = head.keyids[d]]
    /\ UNCHANGED <<env, head, keyring, identity, cur, files, procs>>

\* the host checks out f: it pipes the blob through smudge and writes what
\* smudge wrote
CheckoutFile ==
    /\ \E f \in Files :
          /\ ~files[f].present
          /\ \E r \in {smudge(head.files[f].data, f)} :
                /\ cur' = CheckoutRun("checkout", f, r, f \in cur.early)
                /\ files' = IF r.exit = 0 THEN [files EXCEPT ![f] = File(r.out, "0644")]
                            ELSE files
    /\ UNCHANGED <<env, tree, head, keyring, identity, procs>>

\* the user deletes the working copy of f
DeleteFile ==
    /\ \E f \in Files :
          /\ files[f].present
          /\ files' = [files EXCEPT ![f] = NoFile]
    /\ UNCHANGED <<env, tree, head, keyring, identity, cur, procs>>

NextCheckout == CheckoutKeyId \/ CheckoutFile \/ DeleteFile

SpecCheckout == InitCheckout /\ [][NextCheckout]_vars

(***************************************************************************)
(* The loops of findKey and findRecipients, one iteration at a time, on    *)
(* the relative paths the host passes and on the absolute paths of a walk  *)
(* whose target is the working directory.  The working tree is at /w.      *)
(***************************************************************************)
Getwd == <<"/", "w">>

IsAbs(path) == path # <<>> /\ path[1] = "/"

\* filepath.Dir: "." for a relative path without a directory, "/" for "/"
filepathDir(path) ==
    IF IsAbs(path)
    THEN IF Len(path) <= 2 THEN <<"/">> ELSE SubSeq(path, 1, Len(path) - 1)
    ELSE Dir(path)

\* the place of a path in the working tree; paths above /w are outside it
InRepo(path) == ~IsAbs(path) \/ (Len(path) >= 2 /\ SubSeq(path, 1, 2) = Getwd)

RepoPath(path) == IF IsAbs(path) THEN SubSeq(path, 3, Len(path)) ELSE path

\* os.Stat(path) succeeds and says directory
StatIsDir(path) == IF InRepo(path) THEN IsDir(RepoPath(path)) ELSE TRUE

HasKeyId(path) == InRepo(path) /\ StatIsDir(path) /\ tree[RepoPath(path)].keyid.present

HasRecipient(path) == InRepo(path) /\ StatIsDir(path) /\ tree[RepoPath(path)].recipient.present

ResolvePaths == Files \cup {Getwd \o f : f \in Files}

Loop(op, filename, path, steps, done, err) ==
    [op |-> op, filename |-> filename, path |-> path, steps |-> steps, done |-> done,
     err |-> err]

InitResolve ==
    /\ InitSiv
    /\ cur = Loop("none", <<>>, <<>>, 0, TRUE, "")
    /\ files = NoFiles
    /\ procs = NoProcs
    /\ env = NoEnv

\* path := filepath.Dir(filename)
FindKeyEnter ==
    /\ cur.done
    /\ \E filename \in ResolvePaths :
          cur' = Loop("findKey", filename, filepathDir(filename), 0, FALSE, "")
    /\ UNCHANGED <<env, tree, head, keyring, identity, files, procs>>

FindRecipientsEnter ==
    /\ cur.done
    /\ \E filename \in ResolvePaths :
          cur' = Loop("findRecipients", filename, filepathDir(filename), 0, FALSE, "")
    /\ UNCHANGED <<env, tree, head, keyring, identity, files, procs>>

\* one iteration of the loop of findKey
FindKeyStep ==
    /\ cur.op = "findKey" /\ ~cur.done
    /\ cur.steps < MaxSteps
    /\ cur' = IF HasKeyId(cur.path)
              THEN [cur EXCEPT !.done = TRUE,
                               !.err = readKeyID(tree[RepoPath(cur.path)].keyid.data).err]
              ELSE IF cur.path = <<>>
              THEN [cur EXCEPT !.done = TRUE, !.err = "nokeyid"]
              ELSE [cur EXCEPT !.path = filepathDir(cur.path), !.steps = @ + 1]
    /\ UNCHANGED <<env, tree, head, keyring, identity, files, procs>>

\* one iteration of the loop of findRecipients
FindRecipientsStep ==
    /\ cur.op = "findRecipients" /\ ~cur.done
    /\ cur.steps < MaxSteps
    /\ cur' = IF HasRecipient(cur.path)
              THEN [cur EXCEPT !.done = TRUE,
                               !.err = ageFileToRecipient(tree[RepoPath(cur.path)].recipient.data).err]
              ELSE IF HasKeyId(cur.path)
              THEN [cur EXCEPT !.done = TRUE,
                               !.err = sivFileToKey(tree[RepoPath(cur.path)].keyid.data).err]
              ELSE IF cur.path = <<>>
              THEN [cur EXCEPT !.done = TRUE, !.err = "notfound"]
              ELSE [cur EXCEPT !.path = filepathDir(cur.path), !.steps = @ + 1]
    /\ UNCHANGED <<env, tree, head, keyring, identity, files, procs>>

NextResolve == FindKeyEnter \/ FindRecipientsEnter \/ FindKeyStep \/ FindRecipientsStep

SpecResolve == InitResolve /\ [][NextResolve]_vars

(***************************************************************************)
(* Identity generation (ageGenIdentity).  The identity file is held as its *)
(* text: data is the sequence of its lines and line ends, ids the          *)
(* identities of its identity lines.                                       *)
(***************************************************************************)
\* "# description: %s\n# public key: %s\n%s\n"
IdentityRecord(desc, id) ==
    << [Tok("description") EXCEPT !.c = desc], NL,
       [Tok("publickey") EXCEPT !.k = id], NL,
       [Tok("identity") EXCEPT !.k = id], NL >>

IdentityText(status, data) ==
    [status |-> status, data |-> data,
     ids |-> {data[i].k : i \in {j \in 1..Len(data) : data[j].t = "identity"}}]

\* an open with O_TRUNC: the write replaces the content
writeTruncating(data, bytes) == bytes

\* os.OpenFile(O_APPEND|O_CREATE|O_WRONLY) and Write: the bytes go to the end
writeAppending(data, bytes) == data \o bytes

GenIdentities == {"I2", "I3"}

Descriptions == {"d1", "d2"}

InitGenIdentity ==
    /\ procs = NoProcs
    /\ env = NoEnv
    /\ files = NoFiles
    /\ tree = [d \in Dirs |-> TreeEntry(TRUE, NoRecipient, NoKeyId)]
    /\ keyring = NoKeyring
    /\ head = [files |-> [f \in Files |-> NoHeadFile],
               recipients |-> [d \in Dirs |-> NoRecipient]]
    /\ identity \in
         { IdentityText("missing", <<>>), IdentityText("ok", <<>>),
           IdentityText("ok", IdentityRecord("d1", "I1")),
           \* a file whose last line has no line end
           IdentityText("ok", SubSeq(IdentityRecord("d1", "I1"), 1, 5)) }
    /\ cur = [op |-> "none", desc |-> "", id |-> "", before |-> IdentityText("missing", <<>>),
              exit |-> 0, runs |-> 0]

\* strongbox -gen-identity desc; OpenFile or Write may fail, and a failed
\* Write may have written a part of the record
AgeGenIdentity ==
    /\ cur.runs < MaxGenRuns
    /\ \E desc \in Descriptions, id \in GenIdentities,
          fail \in {"", "OpenFile", "Write"}, part \in 0..1 :
          /\ fail # "Write" => part = 0
          /\ identity' =
                IF fail = "OpenFile" THEN identity
                ELSE IF fail = "Write"
                THEN IdentityText("ok", writeAppending(identity.data,
                                     SubSeq(IdentityRecord(desc, id), 1, 2 * part)))
                ELSE IdentityText("ok", writeAppending(identity.data,
                                                       IdentityRecord(desc, id)))
          /\ cur' = [op |-> "gen-identity", desc |-> desc, id |-> id, before |-> identity,
                     exit |-> IF fail = "" THEN 0 ELSE 1, runs |-> cur.runs + 1]
    /\ UNCHANGED <<env, tree, head, keyring, files, procs>>

NextGenIdentity == AgeGenIdentity

SpecGenIdentity == InitGenIdentity /\ [][NextGenIdentity]_vars

(***************************************************************************)
(* Key rotation: the recipient file is edited and committed, the protected *)
(* file is staged (the host runs clean on the working copy and keeps what  *)
(* clean wrote in the index) and committed.  files holds the index.        *)
(***************************************************************************)
RotateRecipients == {<<"R1">>, <<"R2">>}

Protected == <<"s", "secret">>

InitRotate ==
    /\ procs = NoProcs
    /\ env = NoEnv
    /\ cur = NoRun
    /\ keyring = KeyringOf(<<"K1">>)
    /\ identity = IdentityFile({"I1"})
    /\ tree = [d \in Dirs |-> TreeEntry(TRUE, IF d = <<>> THEN RecipientFile(<<"R1">>)
                                              ELSE NoRecipient, NoKeyId)]
    /\ \E b \in {NoHeadFile, HeadFile(Armored({"R1"}, Text(1), 1))} :
          head = [files |-> [f \in Files |-> IF f = Protected THEN b ELSE NoHeadFile],
                  recipients |-> [d \in Dirs |-> IF d = <<>> THEN RecipientFile(<<"R1">>)
                                                ELSE NoRecipient]]
    /\ files = [f \in Files |-> NoFile]

\* the user writes other recipients to .strongbox_recipient
EditRecipient ==
    /\ \E rs \in RotateRecipients :
          /\ tree[<<>>].recipient # RecipientFile(rs)
          /\ tree' = [tree EXCEPT ![<<>>].recipient = RecipientFile(rs)]
    /\ UNCHANGED <<env, head, keyring, identity, cur, files, procs>>

\* git commit of the recipient file
CommitRecipient ==
    /\ head.recipients[<<>>] # tree[<<>>].recipient
    /\ head' = [head EXCEPT !.recipients[<<>>] = tree[<<>>].recipient]
    /\ UNCHANGED <<env, tree, keyring, identity, cur, files, procs>>

\* git add of the protected file: clean on the working copy
Stage ==
    /\ \E in \in {Text(0), Text(1)}, n \in 1..MaxNonce :
          \E r \in {clean(in, Protected, n)} :
              /\ cur' = Run("clean", Protected, in, r, "none", <<>>, <<>>, "", "")
              /\ files' = IF r.exit = 0 THEN [files EXCEPT ![Protected] = File(r.out, "0644")]
                          ELSE files
    /\ UNCHANGED <<env, tree, head, keyring, identity, procs>>

\* git commit of the staged blob
CommitFile ==
    /\ files[Protected].present
    /\ head.files[Protected] # HeadFile(files[Protected].data)
    /\ head' = [head EXCEPT !.files[Protected] = HeadFile(files[Protected].data)]
    /\ UNCHANGED <<env, tree, keyring, identity, cur, files, procs>>

NextRotate == EditRecipient \/ CommitRecipient \/ Stage \/ CommitFile

SpecRotate == InitRotate /\ [][NextRotate]_vars

(***************************************************************************)
(* Vocabulary of the properties, stated on the environment alone.          *)
(***************************************************************************)
\* dirname(f) and its ancestors, up to "."
Ancestors(f) == {SubSeq(f, 1, i) : i \in 0..(Len(f) - 1)}

Deepest(S) == CHOOSE d \in S : \A e \in S : Len(e) <= Len(d)

ExistingDirs(f) == {d \in Ancestors(f) : d \in DOMAIN tree /\ tree[d].isDir}

MarkerDirs(f) ==
    {d \in ExistingDirs(f) : tree[d].recipient.present \/ tree[d].keyid.present}

KeyIdDirs(f) == {d \in ExistingDirs(f) : tree[d].keyid.present}

IsPlaintext(in) == ~HasPrefix(in, prefix) /\ ~HasPrefix(in, armorHeader)

BoundToAge(f) == MarkerDirs(f) # {} /\ tree[Deepest(MarkerDirs(f))].recipient.present

BoundToSiv(f) == MarkerDirs(f) # {} /\ ~tree[Deepest(MarkerDirs(f))].recipient.present

RecipientsParse(data) == data # <<>> /\ "bad" \notin Range(data)

\* the key-id file holds the id of a key that the keyring file holds
KeyInRing(data) ==
    /\ data.b64 /\ data.len = 32
    /\ keyring.status = "ok"
    /\ \E i \in 1..Len(keyring.entries) : keyring.entries[i].keyID.sha = data.sha

\* some local identity can open a blob made for the recipients rs
CanOpen(rs) == identity.status = "ok" /\ \E id \in identity.ids : Recipient(id) \in rs

\* the decryption material of the binding of f is at hand
MaterialAvailable(f) ==
    \/ /\ BoundToAge(f)
       /\ RecipientsParse(tree[Deepest(MarkerDirs(f))].recipient.data)
       /\ CanOpen(Range(tree[Deepest(MarkerDirs(f))].recipient.data))
    \/ /\ BoundToSiv(f)
       /\ KeyInRing(tree[Deepest(MarkerDirs(f))].keyid.data)

\* clean cannot resolve the binding of f
ResolutionFails(f) ==
    \/ MarkerDirs(f) = {}
    \/ /\ BoundToSiv(f)
       /\ ~KeyInRing(tree[Deepest(MarkerDirs(f))].keyid.data)

\* smudge cannot load the key of f
KeyUnavailable(f) ==
    \/ KeyIdDirs(f) = {}
    \/ ~KeyInRing(tree[Deepest(KeyIdDirs(f))].keyid.data)

\* the blob of f at HEAD opens to in, and the recipient file in effect is as at HEAD
ReuseCondition(in, f) ==
    LET d == Deepest(MarkerDirs(f))
        blob == head.files[f].data
    IN  /\ head.files[f].present
        /\ IsArmored(blob) /\ CanOpen(blob[3].rs) /\ blob[3].p = in
        /\ head.recipients[d].present
        /\ head.recipients[d].data = tree[d].recipient.data

\* f is bound to recipients that parse
AgeBound(f) ==
    BoundToAge(f) /\ RecipientsParse(tree[Deepest(MarkerDirs(f))].recipient.data)

\* C1: clean applied to the output of a clean, for the same file, writes its
\* input unchanged, exits zero and resolves no binding.
C1_CleanIdempotent ==
    (cur.op = "clean" /\ cur.after = "clean" /\ cur.in = cur.prev)
        => (cur.exit = 0 /\ cur.out = cur.in /\ cur.nw = 1 /\ cur.lookup = "none")

C1_Witness ==
    /\ cur.op = "clean" /\ cur.after = "clean" /\ cur.in = cur.prev
    /\ cur.src = plain /\ cur.prevhow = "siv" /\ cur.out = cur.in

\* C2 as claimed: smudge of what clean wrote gives back the input of clean,
\* for every input, those that begin with a recognised prefix included.
C2_RoundTripOfAnyInput ==
    (cur.op = "smudge" /\ cur.after = "clean" /\ MaterialAvailable(cur.f))
        => (cur.exit = 0 /\ cur.out = cur.src)

\* C2 as amended: smudge of what clean wrote gives back the input of clean,
\* for every input that begins with neither recognised prefix (the empty one
\* included), when the decryption material of the binding is at hand.
C2_RoundTrip ==
    (cur.op = "smudge" /\ cur.after = "clean" /\ IsPlaintext(cur.src)
        /\ MaterialAvailable(cur.f))
        => (cur.exit = 0 /\ cur.out = cur.src)

C2_Witness ==
    /\ cur.op = "smudge" /\ cur.after = "clean" /\ cur.src = plain
    /\ cur.prevhow = "siv" /\ cur.in # cur.src /\ cur.out = cur.src

C4_SmudgePassthrough ==
    (cur.op = "smudge" /\ IsPlaintext(cur.in))
        => (cur.exit = 0 /\ cur.out = cur.in /\ cur.nw = 1 /\ cur.lookup = "none")

C4_Witness ==
    /\ cur.op = "smudge" /\ cur.in = plain /\ cur.out = plain
    /\ keyring.status # "ok" /\ KeyIdDirs(cur.f) # {}

\* C5: the binding clean resolves is that of the deepest directory, among
\* dirname(f) and its ancestors, that holds a marker file; the recipient file
\* wins over the key-id file of the same directory; never both recipients
\* and a key; with a key-id file at the root and a recipient file in s, files
\* under s are bound to recipients and the others to the key.
C5_BindingPrecedence ==
    (cur.op = "clean" /\ cur.lookup = "binding")
        => LET M == MarkerDirs(cur.f)
           IN  /\ M = {} => (cur.kind = "none" /\ cur.err = "notfound")
               /\ M # {} =>
                    /\ cur.dir = Deepest(M)
                    /\ cur.kind = IF tree[Deepest(M)].recipient.present THEN "age" ELSE "siv"
                    /\ (cur.kind = "age" /\ cur.exit = 0) =>
                          (cur.recipients = tree[cur.dir].recipient.data /\ cur.key = "")
                    /\ (cur.kind = "siv" /\ cur.exit = 0) =>
                          (cur.recipients = <<>> /\ cur.key = tree[cur.dir].keyid.data.sha)
               /\ ~(cur.recipients # <<>> /\ cur.key # "")
               /\ (/\ tree[<<>>].keyid.present /\ ~tree[<<>>].recipient.present
                   /\ tree[<<"s">>].isDir /\ tree[<<"s">>].recipient.present)
                     => cur.kind = IF cur.f = <<"s", "secret">> THEN "age" ELSE "siv"

C5_Witness ==
    /\ cur.op = "clean" /\ cur.lookup = "binding" /\ cur.f = <<"s", "secret">>
    /\ tree[<<>>].keyid.present /\ ~tree[<<>>].recipient.present
    /\ tree[<<"s">>].recipient.present /\ tree[<<"s">>].keyid.present
    /\ cur.kind = "age" /\ cur.how = "age-fresh"

\* C6: clean of a plaintext whose binding cannot be resolved (no marker
\* file, malformed key-id file, keyring not loadable, key-id not in the
\* keyring) exits non-zero and has written nothing.
C6_CleanMissingKeyFatal ==
    (cur.op = "clean" /\ IsPlaintext(cur.in) /\ ResolutionFails(cur.f))
        => (cur.exit = 1 /\ cur.nw = 0 /\ cur.out = <<>>)

C6_Witness ==
    /\ cur.op = "clean" /\ cur.in = plain /\ BoundToSiv(cur.f)
    /\ keyring.status = "ok" /\ cur.err = "keyNotFound" /\ cur.exit = 1

\* C7: smudge of a SIV blob whose key cannot be loaded (no key-id file,
\* keyring missing, key-id not in the keyring) writes the blob unchanged and
\* exits zero.
C7_SmudgeMissingKeyTolerant ==
    (cur.op = "smudge" /\ HasPrefix(cur.in, prefix) /\ KeyUnavailable(cur.f))
        => (cur.exit = 0 /\ cur.out = cur.in /\ cur.nw = 1)

C7_Witness ==
    /\ cur.op = "smudge" /\ cur.in = encrypt(Text(1), "K2")
    /\ KeyIdDirs(cur.f) # {} /\ keyring.status = "ok"
    /\ cur.err = "keyNotFound" /\ cur.out = cur.in

\* C8: once smudge has seen the SIV prefix and loaded a key, every failure of
\* decrypt (no newline, base-64, authentication, gzip framing) leaves the
\* input as the output and the exit status zero.
C8_SmudgeDecryptFailureNonFatal ==
    (cur.op = "smudge" /\ cur.lookup = "key" /\ cur.key # ""
        /\ cur.err \in {"split", "base64", "auth", "gzip"})
        => (cur.exit = 0 /\ cur.out = cur.in)

\* the same, without the gzip failure: holds
C8_OtherDecryptFailuresNonFatal ==
    (cur.op = "smudge" /\ cur.lookup = "key" /\ cur.key # ""
        /\ cur.err \in {"split", "base64", "auth"})
        => (cur.exit = 0 /\ cur.out = cur.in)

\* C9: clean for an age-bound path whose blob at HEAD decrypts, with the
\* local identities, to the new plaintext, and whose recipient file is the
\* same in the working copy and at HEAD, writes the blob of HEAD.
C9_AgeReuse ==
    (cur.op = "clean" /\ IsPlaintext(cur.in) /\ AgeBound(cur.f)
        /\ ReuseCondition(cur.in, cur.f))
        => (cur.exit = 0 /\ cur.nw = 1 /\ cur.out = head.files[cur.f].data)

C9_Witness ==
    /\ cur.op = "clean" /\ cur.after = "clean" /\ cur.in = cur.src
    /\ AgeBound(cur.f) /\ ReuseCondition(cur.in, cur.f)
    /\ cur.out = head.files[cur.f].data /\ cur.prev = cur.out

\* C10: clean for an age-bound path for which the reuse condition does not
\* hold writes a fresh armored ciphertext of the plaintext for the recipients
\* of the working copy, and exits zero.
C10_AgeReencrypt ==
    (cur.op = "clean" /\ IsPlaintext(cur.in) /\ AgeBound(cur.f)
        /\ ~ReuseCondition(cur.in, cur.f))
        => /\ cur.exit = 0
           /\ \E n \in 1..MaxNonce :
                 cur.out = Armored(Range(tree[Deepest(MarkerDirs(cur.f))].recipient.data),
                                   cur.in, n)

\* the same, when the recipient file in effect has a version at HEAD: holds
C10_AgeReencryptWithRecipientAtHead ==
    (cur.op = "clean" /\ IsPlaintext(cur.in) /\ AgeBound(cur.f)
        /\ ~ReuseCondition(cur.in, cur.f)
        /\ head.recipients[Deepest(MarkerDirs(cur.f))].present)
        => /\ cur.exit = 0
           /\ \E n \in 1..MaxNonce :
                 cur.out = Armored(Range(tree[Deepest(MarkerDirs(cur.f))].recipient.data),
                                   cur.in, n)

\* C11: smudge of an age blob writes the input unchanged and exits zero when
\* the identity file is missing, does not parse, or holds no identity the
\* blob was encrypted to; it writes the decrypted plaintext only when a local
\* identity matches.
C11_AgeDecryptPassthrough ==
    (cur.op = "smudge" /\ HasPrefix(cur.in, armorHeader))
        => /\ cur.exit = 0 /\ cur.nw = 1
           /\ IF IsArmored(cur.in) /\ CanOpen(cur.in[3].rs)
              THEN cur.out = cur.in[3].p
              ELSE cur.out = cur.in

C11_Witness ==
    /\ cur.op = "smudge" /\ cur.in = Armored({"R1"}, Text(1), 1)
    /\ identity.status = "unparsable" /\ cur.err = "parse"
    /\ cur.out = cur.in /\ cur.exit = 0

\* C12: decrypt applied to an age blob, under any key, gives no plaintext but
\* a malformed-blob or authentication error; ageDecrypt applied to a SIV
\* blob, with any identity file, gives no plaintext and, when the identities
\* load, the error of a malformed blob.
C12_NoCrossSchemeAcceptance ==
    /\ (cur.op = "decrypt" /\ HasPrefix(cur.in, armorHeader))
          => (cur.how = "fatal" /\ cur.nw = 0 /\ cur.err \in {"split", "base64", "auth"})
    /\ (cur.op = "ageDecrypt" /\ HasPrefix(cur.in, prefix))
          => /\ cur.how = "pass" /\ cur.out = cur.in
             /\ identity.status = "ok" => cur.err = "malformed"

C12_Witness ==
    /\ cur.op = "decrypt" /\ cur.in = Armored({"R1"}, Text(1), 1)
    /\ cur.key = "K1" /\ cur.err = "base64" /\ cur.how = "fatal"

\* the temporaries of the merge adapter that the disk still holds
TempsLeft == {n \in Range(TempNames) : files[n].present}

\* C13: whenever the merge adapter has ended, after success or after any
\* failure, none of the temporary files it created still exists.
C13_MergeTemporariesRemoved ==
    cur.op = "merge" => TempsLeft = {}

\* the same, for the runs that exit zero only: holds
C13_MergeTemporariesRemovedOnSuccess ==
    (cur.op = "merge" /\ cur.exit = 0) => TempsLeft = {}

\* C14: when the merge adapter has exited zero, the output path (%P) holds
\* the merged bytes of the host three-way merge, with mode 0644.
C14_MergeOutputDestination ==
    (cur.op = "merge" /\ cur.exit = 0) => files[output] = File(cur.merged, "0644")

\* where the merged bytes go: the temporary of the current side, removed at
\* return; holds
C14_MergeWritesToTemporary ==
    (cur.op = "merge" /\ cur.exit = 0) => cur.written = TempNames[2]

\* the plaintext of a SIV blob of the model
SmudgedOf(blob) == decrypt(blob, "K1").val

\* s holds sub as consecutive bytes
Contains(s, sub) ==
    \E i \in 1..(Len(s) - Len(sub) + 1) : SubSeq(s, i, i + Len(sub) - 1) = sub

\* the three inputs are SIV blobs of three different plaintexts under the key
\* that the key-id file of the root names, and no system call fails
ConflictingSivMerge ==
    /\ cur.op = "merge" /\ cur.fault = Fault("none", 0)
    /\ KeyIdDirs(<<current>>) # {} /\ KeyInRing(tree[<<>>].keyid.data)
    /\ \E t0, t1, t2 \in MergeTexts :
          /\ t0 # t1 /\ t0 # t2 /\ t1 # t2
          /\ files[base].data = encrypt(t0, "K1")
          /\ files[current].data = encrypt(t1, "K1")
          /\ files[other].data = encrypt(t2, "K1")

\* C15: after a merge of an SIV-protected file whose two sides changed the
\* plaintext differently, some file holds the conflict markers around both
\* sides' plaintext and no SIV marker token.
C15_MergeWithConflicts ==
    ConflictingSivMerge
        => \E n \in DOMAIN files :
              /\ files[n].present
              /\ Contains(files[n].data, <<Marker("<<<<<<<")>>)
              /\ Contains(files[n].data, <<Marker("=======")>>)
              /\ Contains(files[n].data, <<Marker(">>>>>>>")>>)
              /\ Contains(files[n].data, SmudgedOf(files[current].data))
              /\ Contains(files[n].data, SmudgedOf(files[other].data))
              /\ ~Contains(files[n].data, prefix)

\* what the adapter does in that case: it ends with status 1 on the exit
\* status of git merge-file and leaves the three temporaries; holds
C15_ConflictEndsTheAdapter ==
    ConflictingSivMerge
        => (cur.exit = 1 /\ cur.err = "merge-file" /\ TempsLeft = Range(TempNames))

\* the files of the tree that lie under a directory named .git
GitFiles == {q \in Range(WalkOrder) : ".git" \in Range(Dir(q))}

\* C16: recursiveDecrypt neither opens nor changes a file under a directory
\* named .git, at any depth, whatever the file holds.
C16_BulkDecryptSkipsGit ==
    cur.op = "walk"
        => \A q \in GitFiles : q \notin cur.opened /\ files[q] = cur.before[q]

C16_Witness ==
    /\ cur.op = "walk" /\ cur.target = <<>> /\ cur.givenKey = "K1"
    /\ cur.before[<<"s", ".git", "foo">>].data = encrypt(Text(1), "K1")
    /\ cur.before[<<".git", "foo">>].data = encrypt(Text(1), "K1")
    /\ <<"s", "secret">> \in cur.written /\ <<"secret">> \in cur.written
    /\ files[<<"s", ".git", "foo">>] = cur.before[<<"s", ".git", "foo">>]

\* the failure of one file in a walk: none, that of finding its key, or that
\* of decrypting it (split, base-64, authentication, gzip)
FileFailure(q) ==
    LET data == cur.before[q].data
        k == IF cur.givenKey # "" THEN [err |-> "", key |-> cur.givenKey] ELSE key(q)
    IN  IF ~HasPrefix(data, prefix) THEN ""
        ELSE IF k.err # "" THEN k.err
        ELSE decrypt(data, k.key).err

\* C17: a failure to find the key of a file or to decrypt it does not stop
\* the walk: every file of the walk is processed, recursiveDecrypt returns,
\* and it returns the aggregate error exactly when some file failed.
C17_BulkDecryptPartialFailure ==
    cur.op = "walk"
        => /\ \A q \in Range(Visited(cur.target)) : q \in cur.opened
           /\ cur.returned
           /\ cur.err # "" <=> \E q \in Range(Visited(cur.target)) : FileFailure(q) # ""

\* the same, for walks with no file whose payload is no gzip stream: holds
C17_PartialFailureWithoutGzipFailure ==
    (cur.op = "walk" /\ \A q \in Range(Visited(cur.target)) : FileFailure(q) # "gzip")
        => /\ \A q \in Range(Visited(cur.target)) : q \in cur.opened
           /\ cur.returned
           /\ cur.err # "" <=> \E q \in Range(Visited(cur.target)) : FileFailure(q) # ""

Quiescent == \A q \in GenProcs : ~Running(q)

\* C19: after gen-key runs that did not overlap and all exited zero, the
\* keyring file holds its initial entries (none, if it was missing) followed
\* by one entry per run in the order of the runs, and each of these has a
\* 32-byte key and the SHA-256 of the key as key-id.
C19_KeyringPersistence ==
    (cur.op = "gen-key" /\ Quiescent /\ ~cur.overlapped /\ ~cur.failed)
        => /\ keyring.entries = cur.initial \o cur.saved
           /\ Len(cur.saved) = cur.runs
           /\ cur.runs > 0 => keyring.status = "ok"
           /\ \A i \in 1..Len(cur.saved) :
                 cur.saved[i].len = 32 /\ cur.saved[i].keyID = Sha256(cur.saved[i].key)

C19_Witness ==
    /\ cur.op = "gen-key" /\ Quiescent /\ ~cur.overlapped /\ ~cur.failed
    /\ cur.initial = KeyringOf(<<"K1">>).entries
    /\ cur.runs = 2 /\ procs[1].pc = "done" /\ procs[2].pc = "done"
    /\ keyring.entries =
          cur.initial \o <<KeyEntry(Sha256("G2"), "G2"), KeyEntry(Sha256("G1"), "G1")>>

\* C20: when all gen-key runs have exited zero, the keyring file lacks the
\* entry of some run exactly when a run began while another was between its
\* Load and its Save; two such runs can both exit zero and leave the entry of
\* one of them only.
C20_ConcurrentGenKeyLosesUpdates ==
    (cur.op = "gen-key" /\ Quiescent /\ ~cur.failed)
        => /\ cur.overlapped <=> Len(keyring.entries) < Len(cur.initial) + Len(cur.saved)
           /\ cur.runs > 0 => keyring.entries[Len(keyring.entries)] = cur.saved[Len(cur.saved)]

C20_Witness ==
    /\ cur.op = "gen-key" /\ cur.overlapped /\ ~cur.failed /\ cur.runs = 2
    /\ procs[1].pc = "done" /\ procs[2].pc = "done"
    /\ cur.saved = <<KeyEntry(Sha256("G1"), "G1"), KeyEntry(Sha256("G2"), "G2")>>
    /\ keyring.entries = cur.initial \o <<KeyEntry(Sha256("G2"), "G2")>>

\* the places of the entries of the keyring that carry the key-id looked up
KeyHits == {i \in 1..Len(keyring.entries) : keyring.entries[i].keyID = cur.keyID}

\* C21: Key(id) returns the key of the first entry, in keyring order, whose
\* key-id is id, also when later entries carry the same key-id; it returns
\* the key-not-found error exactly when no entry has that key-id; it leaves
\* the entries as they were.
C21_KeyringLookup ==
    cur.op = "Key"
        => /\ cur.err = "keyNotFound" <=> KeyHits = {}
           /\ \A i \in KeyHits :
                 ((\A j \in KeyHits : i <= j) /\ keyring.entries[i].len = 32)
                     => (cur.err = "" /\ cur.key = keyring.entries[i].key)
           /\ keyring.entries = cur.before

C21_Witness ==
    /\ cur.op = "Key" /\ cur.keyID = Sha256("K1") /\ cur.err = "" /\ cur.key = "K2"
    /\ Len(keyring.entries) = 3
    /\ keyring.entries[1].keyID = Sha256("K2")
    /\ keyring.entries[2] = KeyEntry(Sha256("K1"), "K2")
    /\ keyring.entries[3] = KeyEntry(Sha256("K1"), "K1")

\* the path a source of the home directory yields, "" when it yields none
YieldsStrongboxHome == Getenv(env.STRONGBOX_HOME)

YieldsHome == Getenv(env.HOME)

YieldsUser == IF env.user.err THEN "" ELSE env.user.HomeDir

\* C22: deriveHome returns STRONGBOX_HOME when it is non-empty, otherwise HOME
\* when it is non-empty, otherwise the home directory of the current user, and
\* it ends fatally exactly when all three yield no path; a non-empty
\* STRONGBOX_HOME wins over every HOME.
C22_HomeResolutionOrder ==
    cur.op = "deriveHome" =>
        /\ YieldsStrongboxHome # "" => ~cur.fatal /\ cur.home = YieldsStrongboxHome
        /\ YieldsStrongboxHome = "" /\ YieldsHome # "" =>
               ~cur.fatal /\ cur.home = YieldsHome
        /\ YieldsStrongboxHome = "" /\ YieldsHome = "" /\ YieldsUser # "" =>
               ~cur.fatal /\ cur.home = YieldsUser
        /\ cur.fatal <=> YieldsStrongboxHome = "" /\ YieldsHome = "" /\ YieldsUser = ""

C22_Witness ==
    /\ cur.op = "deriveHome"
    /\ YieldsStrongboxHome = "/sb"
    /\ YieldsHome = "/home/u"
    /\ cur.home = "/sb"

\* C22 as stated: whenever STRONGBOX_HOME is set, deriveHome returns it,
\* whatever HOME holds.
C22_SetStrongboxHomeOverrides ==
    cur.op = "deriveHome" /\ env.STRONGBOX_HOME.set =>
        ~cur.fatal /\ cur.home = env.STRONGBOX_HOME.val

\* the directories whose key-id file, in the commit, is in effect for f
CommittedKeyIdDirs(f) == {d \in Ancestors(f) : head.keyids[d].present}

\* the commit binds f to key k, and the keyring holds k
CommittedKey(f, k) ==
    /\ CommittedKeyIdDirs(f) # {}
    /\ head.keyids[Deepest(CommittedKeyIdDirs(f))].data = KeyIdText(TRUE, 32, k)
    /\ krKey(Sha256(k)) = [err |-> "", key |-> k]

\* C23: when smudge runs for a SIV blob at P while no key-id file for P is in
\* the working tree yet, it writes the ciphertext verbatim and succeeds; when
\* it runs after the key-id file that binds P was written, also on a second
\* checkout of the same blob, it writes the plaintext.
C23_CheckoutOrdering ==
    cur.op = "checkout" =>
        \A n \in 0..1, k \in Keys :
            cur.in = encrypt(Text(n), k) /\ CommittedKey(cur.f, k) =>
                /\ (\A d \in Ancestors(cur.f) : ~cur.keyids[d].present) =>
                       cur.out = cur.in /\ cur.nw = 1 /\ cur.exit = 0
                /\ cur.keyids[Deepest(CommittedKeyIdDirs(cur.f))].present =>
                       cur.out = Text(n) /\ cur.nw = 1 /\ cur.exit = 0

C23_Witness ==
    /\ cur.op = "checkout"
    /\ cur.f = <<"s", "secret">>
    /\ cur.again
    /\ cur.in = encrypt(Text(1), "K1")
    /\ CommittedKey(cur.f, "K1")
    /\ cur.out = Text(1)
    /\ files[cur.f] = File(Text(1), "0644")

\* C24: findKey and findRecipients stop after finitely many upward steps for
\* every input path, absolute ones included: a loop never takes more steps
\* than the path has directories above the file.
C24_ResolutionTerminates ==
    cur.op \in {"findKey", "findRecipients"} => cur.steps <= Len(cur.filename)

\* on the relative paths the host passes, both loops stop within the depth
\* of the path
C24_RelativeResolutionTerminates ==
    cur.op \in {"findKey", "findRecipients"} /\ ~IsAbs(cur.filename) =>
        cur.steps < Len(cur.filename)

\* the key a walk uses for file q: the one of -key, or the one of the key-id
\* file in effect
WalkKey(q) == IF cur.givenKey # "" THEN cur.givenKey ELSE key(q).key

\* C25: a walk leaves every visited file that does not begin with the SIV
\* prefix (plaintext, age blob, empty, a beginning of the prefix) as it was,
\* content and mode; a file it decrypted holds exactly the plaintext, nothing
\* of the old content behind it, and has the mode it had.
C25_BulkDecryptEffect ==
    cur.op = "walk" =>
        \A q \in Range(Visited(cur.target)) :
            /\ ~HasPrefix(cur.before[q].data, prefix) => files[q] = cur.before[q]
            /\ q \in cur.written =>
                  /\ \E n \in 0..1 : cur.before[q].data = encrypt(Text(n), WalkKey(q))
                  /\ \A n \in 0..1 :
                        cur.before[q].data = encrypt(Text(n), WalkKey(q)) =>
                            files[q] = File(Text(n), cur.before[q].mode)

C25_Witness ==
    /\ cur.op = "walk" /\ cur.target = <<>> /\ cur.givenKey = ""
    /\ cur.before[<<"s", "secret">>] = File(Armored({"R1"}, Text(1), 1), "0644")
    /\ files[<<"s", "secret">>] = cur.before[<<"s", "secret">>]
    /\ cur.before[<<"secret">>] = File(encrypt(Text(1), "K1"), "0600")
    /\ files[<<"secret">>] = File(Text(1), "0600")

\* the I/O failure of file q in a walk that reaches it: it cannot be opened
\* read/write, or the failing read, truncate or write is one the callback
\* makes for it
IoFailure(q) ==
    LET data == cur.before[q].data
        decrypts == \E n \in 0..1 : data = encrypt(Text(n), WalkKey(q))
    IN  IF ~CanOpenRW(cur.before[q].mode) THEN "open"
        ELSE IF cur.fault = Fault("read", q) THEN "read"
        ELSE IF cur.fault = Fault("readall", q) /\ HasPrefix(data, prefix) THEN "readall"
        ELSE IF cur.fault = Fault("truncate", q) /\ decrypts THEN "truncate"
        ELSE IF cur.fault = Fault("write", q) /\ decrypts THEN "write"
        ELSE ""

\* C26: when opening, reading, truncating or writing a visited file fails,
\* the walk stops at the first such file and recursiveDecrypt returns that
\* error; the files later in the walk are neither opened nor changed, and
\* the files decrypted earlier stay decrypted.
C26_BulkDecryptAbortOnIOError ==
    cur.op = "walk" =>
        LET order == Visited(cur.target)
            failing == {i \in 1..Len(order) : IoFailure(order[i]) # ""}
        IN  /\ failing = {} => cur.ioErr = NoFault
            /\ failing # {} =>
                  LET i == CHOOSE i \in failing : \A j \in failing : i <= j
                  IN  /\ cur.ioErr = Fault(IoFailure(order[i]), order[i])
                      /\ cur.returned /\ cur.err = IoFailure(order[i]) /\ cur.exit = 1
                      /\ \A j \in (i + 1)..Len(order) :
                            order[j] \notin cur.opened /\ files[order[j]] = cur.before[order[j]]
                      /\ \A j \in 1..(i - 1), n \in 0..1 :
                            cur.before[order[j]].data = encrypt(Text(n), WalkKey(order[j]))
                                => files[order[j]].data = Text(n)

C26_Witness ==
    /\ cur.op = "walk" /\ cur.target = <<>> /\ cur.givenKey = ""
    /\ cur.before[<<"s", "secret">>].data = encrypt(Text(1), "K1")
    /\ files[<<"s", "secret">>].data = Text(1)
    /\ cur.before[<<"secret">>] = File(Text(1), "0444")
    /\ cur.ioErr = Fault("open", <<"secret">>)
    /\ cur.exit = 1

\* C27: a gen-identity run that exits zero leaves the previous content of the
\* identity file as an unchanged prefix and appends exactly one record of
\* three lines: the description comment, the public-key comment and the
\* identity line; the file exists afterwards, and every identity it held is
\* still in its text.
C27_IdentityFileAppendOnly ==
    (cur.op = "gen-identity" /\ cur.exit = 0) =>
        LET old == cur.before.data
            new == identity.data
            added == SubSeq(new, Len(old) + 1, Len(new))
        IN  /\ identity.status = "ok"
            /\ HasPrefix(new, old)
            /\ Len(added) = 6
            /\ added[1].t = "description" /\ added[1].c = cur.desc
            /\ added[3].t = "publickey" /\ added[3].k = cur.id
            /\ added[5].t = "identity" /\ added[5].k = cur.id
            /\ added[2] = NL /\ added[4] = NL /\ added[6] = NL
            /\ \A i \in 1..Len(old) : new[i] = old[i]

C27_Witness ==
    /\ cur.op = "gen-identity" /\ cur.exit = 0 /\ cur.runs = 2
    /\ cur.before.data = IdentityRecord("d1", "I2")
    /\ identity.data = IdentityRecord("d1", "I2") \o IdentityRecord("d2", "I3")

\* findRecipients returns recipients or a key for f, and no error
Resolves(f) ==
    \/ BoundToAge(f) /\ RecipientsParse(tree[Deepest(MarkerDirs(f))].recipient.data)
    \/ BoundToSiv(f) /\ KeyInRing(tree[Deepest(MarkerDirs(f))].keyid.data)

\* what clean wrote is one ciphertext of the scheme that binds f
OneCiphertext ==
    /\ cur.nw = 1
    /\ cur.out # <<>> /\ cur.out # cur.in
    /\ BoundToAge(cur.f) => HasPrefix(cur.out, armorHeader)
    /\ BoundToSiv(cur.f) => HasPrefix(cur.out, prefix)

\* C28: for an input without a recognised prefix whose binding resolves
\* without error, clean writes exactly one ciphertext, one that begins with
\* the armor header when recipients were found and with the SIV prefix when a
\* key was found: never nothing, never two, never the plaintext.
C28_CleanNeverStoresPlaintext ==
    (cur.op = "clean" /\ IsPlaintext(cur.in) /\ Resolves(cur.f)) => OneCiphertext

\* the same, for the runs of clean that exit zero: holds
C28_CleanThatSucceedsStoresCiphertext ==
    (cur.op = "clean" /\ IsPlaintext(cur.in) /\ Resolves(cur.f) /\ cur.exit = 0)
        => OneCiphertext

\* a clean that resolved its binding writes nothing only when it ended at
\* git cat-file of the recipient file
C28_NothingWrittenOnlyAtCatFile ==
    (cur.op = "clean" /\ IsPlaintext(cur.in) /\ Resolves(cur.f) /\ cur.exit # 0)
        => /\ cur.nw = 0 /\ cur.err = "cat-file"
           /\ BoundToAge(cur.f)
           /\ ~head.recipients[Deepest(MarkerDirs(cur.f))].present

\* C29: whenever clean resolved P to the SIV key K, smudge run for P on the
\* same tree and keyring loads K, though smudge looks at key-id files only
\* and clean at both kinds of marker.
C29_CleanAndSmudgeAgreeOnKey ==
    /\ (cur.op = "smudge" /\ cur.after = "clean" /\ cur.prevhow = "siv")
          => cur.lookup = "key" /\ cur.err = "" /\ cur.key = cur.prevkey
    /\ \A f \in Files :
          LET b == findRecipients(f)
          IN  (b.err = "" /\ b.kind = "siv") => key(f) = [err |-> "", key |-> b.key]

C29_Witness ==
    /\ cur.op = "smudge" /\ cur.after = "clean" /\ cur.prevhow = "siv"
    /\ cur.f = <<"s", "secret">>
    /\ tree[<<>>].recipient.present /\ tree[<<"s">>].keyid.present
    /\ cur.prevkey = "K1" /\ cur.key = "K1"
    /\ cur.out = cur.src

\* C30: whenever clean writes a ciphertext for an age-bound path, fresh or
\* taken from HEAD, the ciphertext is encrypted to the recipients that the
\* recipient file in effect listed when clean ran, whatever edits, commits
\* and stagings came before.
C30_CiphertextFollowsRecipients ==
    (cur.op = "clean" /\ cur.exit = 0 /\ cur.kind = "age") =>
        IsArmored(cur.out) /\ cur.out[3].rs = Range(cur.recipients)

\* a ciphertext that clean made itself is encrypted to those recipients: holds
C30_FreshCiphertextFollowsRecipients ==
    (cur.op = "clean" /\ cur.exit = 0 /\ cur.kind = "age" /\ cur.how = "age-fresh") =>
        IsArmored(cur.out) /\ cur.out[3].rs = Range(cur.recipients)

====
